---- MODULE Spec2Model ----
(***************************************************************************)
(* Model of the Olive Young product-intelligence pipeline                  *)
(* (creait/oliveyoung_scraper): the sqlite store (src/database.py), the    *)
(* batch image-text extraction (src/image_text_extractor.py) with its      *)
(* persisting call sites (src/agent/tools.py, main.py,                     *)
(* process_product_images.py) and the orchestrator                         *)
(* (src/agent/agent.py, SimpleOliveYoungAgent.process_url_simple).         *)
(*                                                                         *)
(* Eight specifications share the module:                                  *)
(*   SpecStore    sequences of save_product_info / save_image_text calls   *)
(*   SpecExtract  one extraction run of one call site over a product's     *)
(*                images                                                   *)
(*   SpecPipeline one run of process_url_simple                            *)
(*   SpecCalls    one call of a pure function (evaluate_product,           *)
(*                _parse_rating_from_text, calculate_weighted_score, ...)  *)
(*   SpecScrape   one call of OliveYoungScraperSelenium.scrape             *)
(*   SpecWait     the page load and the bot-check wait of scrape, fair     *)
(*   SpecPaginate the review pagination of scrape, fair                    *)
(*   SpecRace     two save_product_info calls on the same URL, their       *)
(*                statements interleaved                                   *)
(***************************************************************************)
EXTENDS Naturals, Integers, Sequences, FiniteSets, TLC

VARIABLES
    \* ---- the sqlite store ------------------------------------------------
    db,              \* the committed tables and AUTOINCREMENT counters
    lastCall,        \* the last store call and how it ended (observer)
    lastTrue,        \* image_id -> text of the latest save_image_text that returned True
    saves,           \* number of store calls made so far
    \* ---- one extraction run ----------------------------------------------
    site,            \* which call site runs: "tool", "main", "all", "specific"
    images,          \* rows the call site read: <<image_id, image_url>>
    i,               \* 1-based loop index (enumerate(..., 1))
    pc,              \* position of the run
    attempt,         \* tenacity attempt_number of the call in progress
    results,         \* the batch function's list of (url, text)
    extracted_texts, \* the mapping the batch function returned
    text,            \* extracted_text held by a direct call site
    calls,           \* per image index: Reasoning Service calls made
    outcome,         \* per image index: "none", "probe_failed", "ok", "exhausted"
    log,             \* events of the run, in order
    raised,          \* an exception left extract_text_from_multiple_images
    \* ---- one pipeline run ------------------------------------------------
    p_pc,            \* position of process_url_simple
    p_url,           \* the URL given
    p_product_id,    \* product_id (0: None)
    p_scrape,        \* what the scrape stage did
    p_tool,          \* what ScrapingTool._arun is about to return while it
                     \* awaits the exit of the scraper
    p_lookup,        \* what the fallback lookup did
    p_ran,           \* the stages attempted, in order
    p_slots,         \* stage -> what its slot of the result says
    p_return,        \* which return statement ended the run
    \* ---- one call of a function of the analysis components ---------------
    call,            \* the function, its arguments and what it returned;
                     \* in SpecRace the two calls that are under way
    \* ---- one scrape --------------------------------------------------------
    scr              \* the scraper: phase, product fields, review pages

storeVars == <<db, lastCall, lastTrue, saves>>
extractVars == <<site, images, i, pc, attempt, results, extracted_texts, text,
                 calls, outcome, log, raised>>
pipeVars == <<p_pc, p_url, p_product_id, p_scrape, p_tool, p_lookup, p_ran, p_slots, p_return>>
callVars == <<call>>
scrapeVars == <<scr>>
vars == <<storeVars, extractVars, pipeVars, callVars, scrapeVars>>

None == "None"

(***************************************************************************)
(* Bounds of the model.                                                    *)
(***************************************************************************)
MaxSaves == 4       \* store calls in one behaviour of SpecStore
MaxImages == 2      \* images of the product an extraction run works on

(***************************************************************************)
(* Text.  A text is a sequence of tokens; each token stands for a run of   *)
(* characters.  The two Korean phrases of the denylist are written in      *)
(* romanised form: "joesonghajiman" is the 5-character phrase              *)
(* 죄송하지만, "chuchulhal su eopsseumnida" the 10-character phrase         *)
(* 추출할 수 없습니다.                                                      *)
(***************************************************************************)
Tokens == {" ", "abc", "abcdefg", "brand: Round Lab",
           "ingredients: water, glycerin",
           "I Cannot", "I CANNOT", "i cannot", "I'm Sorry", "i'm sorry",
           "joesonghajiman", "chuchulhal su eopsseumnida"}

\* len() of the characters a token stands for
TokLen(t) ==
    CASE t = " " -> 1
      [] t = "abc" -> 3
      [] t = "abcdefg" -> 7
      [] t = "brand: Round Lab" -> 16
      [] t = "ingredients: water, glycerin" -> 28
      [] t \in {"I Cannot", "I CANNOT", "i cannot"} -> 8
      [] t \in {"I'm Sorry", "i'm sorry"} -> 9
      [] t = "joesonghajiman" -> 5
      [] t = "chuchulhal su eopsseumnida" -> 10

\* str.lower() on one token
LowerTok(t) ==
    CASE t \in {"I Cannot", "I CANNOT"} -> "i cannot"
      [] t = "I'm Sorry" -> "i'm sorry"
      [] t = "brand: Round Lab" -> "brand: round lab"
      [] OTHER -> t

Lower(s) == [k \in 1..Len(s) |-> LowerTok(s[k])]

RECURSIVE StrLen(_)
StrLen(s) == IF s = <<>> THEN 0 ELSE TokLen(Head(s)) + StrLen(Tail(s))

RECURSIVE LStrip(_)
LStrip(s) == IF s # <<>> /\ Head(s) = " " THEN LStrip(Tail(s)) ELSE s

RECURSIVE RStrip(_)
RStrip(s) ==
    IF s # <<>> /\ s[Len(s)] = " " THEN RStrip(SubSeq(s, 1, Len(s) - 1)) ELSE s

\* str.strip()
Strip(s) == RStrip(LStrip(s))

\* phrase in s  (every denylist phrase is one token)
Contains(s, phrase) == \E k \in 1..Len(s) : s[k] = phrase

\* truthiness of a str
Truthy(s) == s # <<>>

(***************************************************************************)
(* The store: src/database.py.  Tables are sequences of rows in rowid      *)
(* order.  PRAGMA foreign_keys is never switched on, so sqlite enforces    *)
(* no FOREIGN KEY clause and no ON DELETE CASCADE; UNIQUE(url) is          *)
(* enforced.                                                               *)
(***************************************************************************)
EmptyDb ==
    [products |-> <<>>,        \* rows [id, url, name]
     images |-> <<>>,          \* rows [id, product_id, image_url]
     reviews |-> <<>>,         \* rows [product_id, review_text, review_rating]
     texts |-> <<>>,           \* rows [image_id, product_id, image_url, extracted_text]
     seq_products |-> 0,       \* sqlite_sequence of products (AUTOINCREMENT)
     seq_images |-> 0]         \* sqlite_sequence of product_images

Min(a, b) == IF a < b THEN a ELSE b

\* zip(a, b)
Zip(a, b) == [k \in 1..Min(Len(a), Len(b)) |-> <<a[k], b[k]>>]

\* not x, for a str or None
Falsy(x) == x = None \/ x = ""

\* cur.execute("SELECT id FROM products WHERE url = ?"); fetchone(): the id, 0 for no row
SelectProductId(d, url) ==
    LET hit == SelectSeq(d.products, LAMBDA r : r.url = url)
    IN  IF hit = <<>> THEN 0 ELSE hit[1].id

\* DELETE FROM product_images / product_reviews WHERE product_id = ?
TxDeleteChildren(d, pid) ==
    [d EXCEPT !.images = SelectSeq(@, LAMBDA r : r.product_id # pid),
              !.reviews = SelectSeq(@, LAMBDA r : r.product_id # pid)]

\* UPDATE products SET name=?, ... WHERE id = ?
TxUpdateProduct(d, pid, info) ==
    [d EXCEPT !.products =
        [k \in 1..Len(@) |-> IF @[k].id = pid
                             THEN [@[k] EXCEPT !.name = info.name]
                             ELSE @[k]]]

\* INSERT INTO products (url, name, ...); product_id = cur.lastrowid
TxInsertProduct(d, url, info) ==
    [d EXCEPT !.seq_products = @ + 1,
              !.products = Append(@, [id |-> d.seq_products + 1, url |-> url,
                                      name |-> info.name])]

\* the INSERT violates UNIQUE(url): sqlite raises IntegrityError
UniqueViolated_noConstraint(d, url) == FALSE

UniqueViolated(d, url) == \E k \in 1..Len(d.products) : d.products[k].url = url

\* if product_info.detail_images: executemany(INSERT INTO product_images ...)
TxInsertImages(d, pid, info) ==
    LET n == Len(info.detail_images)
    IN  [d EXCEPT !.seq_images = @ + n,
                  !.images = @ \o [k \in 1..n |->
                      [id |-> d.seq_images + k, product_id |-> pid,
                       image_url |-> info.detail_images[k]]]]

\* if product_info.reviews and product_info.review_ratings: executemany over zip
TxInsertReviews(d, pid, info) ==
    IF info.reviews # <<>> /\ info.review_ratings # <<>>
    THEN LET z == Zip(info.reviews, info.review_ratings)
         IN  [d EXCEPT !.reviews = @ \o [k \in 1..Len(z) |->
                 [product_id |-> pid, review_text |-> z[k][1],
                  review_rating |-> z[k][2]]]]
    ELSE d

(***************************************************************************)
(* save_product_info runs six statements in one sqlite transaction:        *)
(*   1 connect + SELECT id   2 DELETE children (existing product)          *)
(*   3 UPDATE or INSERT      4 INSERT images    5 INSERT reviews  6 COMMIT *)
(* TxAfter(d, info, url, k) is the connection's view after the first k.    *)
(***************************************************************************)
TxSteps == 6

TxAfter(d, info, url, k) ==
    LET found == SelectProductId(d, url)
        pid == IF found # 0 THEN found ELSE d.seq_products + 1
        s2 == IF found # 0 THEN TxDeleteChildren(d, found) ELSE d
        s3 == IF found # 0 THEN TxUpdateProduct(s2, found, info)
                           ELSE TxInsertProduct(s2, url, info)
        s4 == TxInsertImages(s3, pid, info)
        s5 == TxInsertReviews(s4, pid, info)
    IN  CASE k \in {0, 1} -> d
          [] k = 2 -> s2
          [] k = 3 -> s3
          [] k = 4 -> s4
          [] k \in {5, 6} -> s5

\* except Exception: con.rollback() -- the store is what it was before the call
Rollback_keepPartial(before, partial) == partial

Rollback(before, partial) == before

\* save_product_info(product_info, url); fail = 0: no statement raises,
\* fail = k: statement k raises.  The result: the store and how the call ended.
save_product_info(d, info, url, fail) ==
    IF Falsy(info.name)
    THEN [db |-> d, outcome |-> "skipped"]
    ELSE LET found == SelectProductId(d, url)
             integrity == found = 0 /\ UniqueViolated(d, url)
             raisedAt == IF fail # 0 /\ (fail <= 3 \/ ~integrity) THEN fail
                         ELSE IF integrity THEN 3 ELSE 0
         IN  IF raisedAt = 0
             THEN [db |-> TxAfter(d, info, url, TxSteps), outcome |-> "committed"]
             ELSE [db |-> Rollback(d, TxAfter(d, info, url, raisedAt - 1)),
                   outcome |-> "rolledback"]

\* the SELECT ... WHERE image_id = ? of save_image_text found a row
TextRowExists_never(d, image_id) == FALSE

TextRowExists(d, image_id) ==
    \E k \in 1..Len(d.texts) : d.texts[k].image_id = image_id

\* save_image_text(image_id, product_id, image_url, extracted_text); fail: a
\* statement raises.  The result: the store and the boolean returned.
save_image_text(d, image_id, product_id, image_url, extracted_text, fail) ==
    IF ~Truthy(extracted_text) \/ ~Truthy(Strip(extracted_text))
    THEN [db |-> d, returned |-> FALSE]
    ELSE LET written ==
                 IF TextRowExists(d, image_id)
                 THEN [d EXCEPT !.texts =
                         [k \in 1..Len(@) |->
                             IF @[k].image_id = image_id
                             THEN [@[k] EXCEPT !.extracted_text = extracted_text]
                             ELSE @[k]]]
                 ELSE [d EXCEPT !.texts = Append(@,
                         [image_id |-> image_id, product_id |-> product_id,
                          image_url |-> image_url,
                          extracted_text |-> extracted_text])]
         IN  IF fail THEN [db |-> Rollback(d, written), returned |-> FALSE]
                     ELSE [db |-> written, returned |-> TRUE]

(***************************************************************************)
(* Inputs of the store calls.                                              *)
(***************************************************************************)
Urls == {"https://www.oliveyoung.co.kr/A", "https://www.oliveyoung.co.kr/B"}

ImageUrls == {"https://image/a.jpg", "https://image/b.jpg"}

\* ProductInfo values a scrape hands to save_product_info: the name may have
\* been left None by a field fault, reviews and review_ratings are two lists
InfoSamples ==
    {[name |-> None, detail_images |-> <<"https://image/a.jpg">>,
      reviews |-> <<"good">>, review_ratings |-> <<"5">>],
     [name |-> "toner", detail_images |-> <<"https://image/a.jpg">>,
      reviews |-> <<"good">>, review_ratings |-> <<"5">>],
     [name |-> "cream",
      detail_images |-> <<"https://image/b.jpg", "https://image/a.jpg">>,
      reviews |-> <<"good", "bad">>, review_ratings |-> <<"5">>],
     [name |-> "cream", detail_images |-> <<>>,
      reviews |-> <<"bad">>, review_ratings |-> <<>>],
     [name |-> "toner", detail_images |-> <<"https://image/b.jpg">>,
      reviews |-> <<"bad", "good">>, review_ratings |-> <<"1", "5">>]}

\* the texts handed to save_image_text in SpecStore
StoreTexts == {<<>>, <<" ">>, <<"abc">>, <<"brand: Round Lab">>}

\* the content of a Reasoning Service reply, before .strip()
RawContents ==
    {<<" ">>, <<"abcdefg">>, <<"i cannot">>,
     <<"brand: Round Lab">>,
     <<" ", "ingredients: water, glycerin", " ">>,
     <<"I Cannot", " ", "ingredients: water, glycerin">>,
     <<"joesonghajiman", " ", "ingredients: water, glycerin">>}

NoCall == [op |-> "none", url |-> None, info |-> None, image_id |-> 0,
           text |-> <<>>, outcome |-> "none", found |-> 0, step |-> 0]

StoreIdle ==
    /\ db = EmptyDb
    /\ lastCall = NoCall
    /\ lastTrue = <<>>
    /\ saves = 0

ExtractIdle ==
    /\ site = None
    /\ images = <<>>
    /\ i = 0
    /\ pc = "idle"
    /\ attempt = 0
    /\ results = <<>>
    /\ extracted_texts = <<>>
    /\ text = <<>>
    /\ calls = <<>>
    /\ outcome = <<>>
    /\ log = <<>>
    /\ raised = FALSE

\* no return of ScrapingTool._arun is pending
NoTool == [kind |-> "none", id |-> 0]

PipeIdle ==
    /\ p_pc = "idle"
    /\ p_url = None
    /\ p_product_id = 0
    /\ p_scrape = "none"
    /\ p_tool = NoTool
    /\ p_lookup = "none"
    /\ p_ran = <<>>
    /\ p_slots = <<>>
    /\ p_return = "none"

CallIdle == call = [op |-> "none"]

ScrapeIdle == scr = [pc |-> "idle"]

(***************************************************************************)
(* SpecStore: any sequence of store calls, one call per step.              *)
(***************************************************************************)
InitStore == StoreIdle /\ ExtractIdle /\ PipeIdle /\ CallIdle /\ ScrapeIdle

CallSaveProductInfo ==
    /\ saves < MaxSaves
    /\ \E url \in Urls, info \in InfoSamples, fail \in 0..TxSteps :
         LET r == save_product_info(db, info, url, fail)
         IN  /\ db' = r.db
             /\ lastCall' = [op |-> "save_product_info", url |-> url,
                             info |-> info, image_id |-> 0, text |-> <<>>,
                             outcome |-> r.outcome,
                             found |-> SelectProductId(db, url),
                             step |-> IF r.outcome = "rolledback" THEN fail ELSE 0]
    /\ saves' = saves + 1
    /\ UNCHANGED <<lastTrue, extractVars, pipeVars, callVars, scrapeVars>>

\* the callers pass a row of get_product_images_with_ids / get_unprocessed_images
CallSaveImageText ==
    /\ saves < MaxSaves
    /\ \E k \in 1..Len(db.images), t \in StoreTexts, fail \in BOOLEAN :
         LET img == db.images[k]
             r == save_image_text(db, img.id, img.product_id, img.image_url, t, fail)
         IN  /\ db' = r.db
             /\ lastCall' = [op |-> "save_image_text", url |-> img.image_url,
                             info |-> None, image_id |-> img.id, text |-> t,
                             outcome |-> IF r.returned THEN "true" ELSE "false",
                             found |-> IF TextRowExists(db, img.id) THEN 1 ELSE 0,
                             step |-> 0]
             /\ lastTrue' = IF r.returned THEN (img.id :> t) @@ lastTrue
                                          ELSE lastTrue
    /\ saves' = saves + 1
    /\ UNCHANGED <<extractVars, pipeVars, callVars, scrapeVars>>

NextStore == CallSaveProductInfo \/ CallSaveImageText

SpecStore == InitStore /\ [][NextStore]_vars

(***************************************************************************)
(* Readings of the store used by the properties.                           *)
(***************************************************************************)
ProductRows(d, url) == SelectSeq(d.products, LAMBDA r : r.url = url)

ImageUrlsOf(d, pid) ==
    LET rows == SelectSeq(d.images, LAMBDA r : r.product_id = pid)
    IN  [k \in 1..Len(rows) |-> rows[k].image_url]

ReviewPairsOf(d, pid) ==
    LET rows == SelectSeq(d.reviews, LAMBDA r : r.product_id = pid)
    IN  [k \in 1..Len(rows) |-> <<rows[k].review_text, rows[k].review_rating>>]

TextRowsOf(d, image_id) == SelectSeq(d.texts, LAMBDA r : r.image_id = image_id)

\* the product row of the last save_product_info call's URL is the call's data
LastSaveIsStored ==
    LET rows == ProductRows(db, lastCall.url)
    IN  /\ Len(rows) = 1
        /\ lastCall.found # 0 => rows[1].id = lastCall.found
        /\ rows[1].name = lastCall.info.name
        /\ ImageUrlsOf(db, rows[1].id) = lastCall.info.detail_images
        /\ ReviewPairsOf(db, rows[1].id) =
               Zip(lastCall.info.reviews, lastCall.info.review_ratings)

\* C6 as stated: the store never holds two products for one URL, and after
\* a save_product_info call for an already stored URL in which no statement
\* raised, the product of that URL keeps the identifier it had, has the
\* call's fields, and has as image and review children exactly the call's
\* images and (text, rating) pairs.
C6_AsStated ==
    /\ \A u \in Urls : Len(ProductRows(db, u)) <= 1
    /\ (/\ lastCall.op = "save_product_info"
        /\ lastCall.found # 0
        /\ lastCall.outcome # "rolledback") => LastSaveIsStored

(***************************************************************************)
(* C7.  A save_product_info call in which a statement raises leaves every  *)
(* table of the store as it was before the call.                           *)
(***************************************************************************)
C7_FailedSaveLeavesStore ==
    [][(saves' = saves + 1 /\ lastCall'.op = "save_product_info"
          /\ lastCall'.outcome = "rolledback") => db' = db]_vars

\* a save of a stored product with children failed after the DELETEs ran
C7_Witness ==
    /\ lastCall.op = "save_product_info"
    /\ lastCall.outcome = "rolledback"
    /\ lastCall.step >= 3
    /\ lastCall.found # 0
    /\ ImageUrlsOf(db, lastCall.found) # <<>>
    /\ ReviewPairsOf(db, lastCall.found) # <<>>

(***************************************************************************)
(* C8.  For every image identifier the store holds at most one             *)
(* product_image_texts row, and it holds the text of the latest            *)
(* save_image_text call for that image that returned True.                 *)
(***************************************************************************)
C8_OneTextRowPerImage ==
    \A id \in 1..db.seq_images :
        LET rows == TextRowsOf(db, id)
        IN  /\ Len(rows) <= 1
            /\ Len(rows) = 1 <=> id \in DOMAIN lastTrue
            /\ id \in DOMAIN lastTrue => rows[1].extracted_text = lastTrue[id]

\* a save_image_text call updated the row of an image that had one
C8_Witness ==
    /\ lastCall.op = "save_image_text"
    /\ lastCall.outcome = "true"
    /\ lastCall.found = 1
    /\ Len(TextRowsOf(db, lastCall.image_id)) = 1

(***************************************************************************)
(* The image validity probe and the extraction call:                       *)
(* src/image_text_extractor.py.                                            *)
(***************************************************************************)
\* what session.head(image_url) does: a response, a timeout, another error
ProbeOutcomes ==
    [kind : {"response"}, status : {200, 206, 404},
     content_type : {"image/jpeg", "IMAGE/PNG", "text/html", ""}]
    \cup {[kind |-> "timeout", status |-> 0, content_type |-> ""],
          [kind |-> "error", status |-> 0, content_type |-> ""]}

\* content_type.lower(), content_type.startswith('image/') and
\* 'image' in ..., over the content types of ProbeOutcomes
LowerType(content_type) ==
    IF content_type = "IMAGE/PNG" THEN "image/png" ELSE content_type

StartsWithImage(content_type) == content_type \in {"image/jpeg", "image/png"}

HasImage(content_type) == content_type \in {"image/jpeg", "image/png"}

\* is_image = content_type.startswith('image/') or 'image' in content_type.lower()
IsImageType(content_type) ==
    StartsWithImage(content_type) \/ HasImage(LowerType(content_type))

\* what the log of a run says about a probe: the server answered 200 or 206
\* with an image content type, or anything else happened
ProbeAnswer(p) ==
    IF /\ p.kind = "response"
       /\ p.status = 200 \/ p.status = 206
       /\ p.content_type \in {"image/jpeg", "IMAGE/PNG"}
    THEN "probe_image" ELSE "probe_other"

\* a probe that does not look at the status
validate_image_url_anyStatus(p) ==
    /\ p.kind = "response"
    /\ IsImageType(p.content_type)

\* validate_image_url: True only for status 200/206 with an image content type
validate_image_url(p) ==
    /\ p.kind = "response"
    /\ p.status \in {200, 206}
    /\ IsImageType(p.content_type)

\* what one client.chat.completions.create call does: it raises, or it
\* returns a message whose content is None or a str
Replies ==
    [kind : {"raise"}, exc : {"APIError", "ClientError"}, content : {<<>>}]
    \cup [kind : {"content"}, exc : {None}, content : RawContents]
    \cup {[kind |-> "none", exc |-> None, content |-> <<>>]}

\* return extracted_text.strip() if extracted_text else ""
ReturnedText(reply) ==
    IF reply.kind = "content" /\ Truthy(reply.content) THEN Strip(reply.content)
    ELSE <<>>

\* stop=stop_after_attempt(3)
MaxAttempts == 3

ShouldStop_offByOne(attempt_number) == attempt_number > MaxAttempts

ShouldStop(attempt_number) == attempt_number >= MaxAttempts

\* the exception classes that reach a handler of the extraction loop: after
\* the last attempt tenacity raises RetryError (reraise is not set)
ExceptionClasses == {"APIError", "ClientError", "RetryError"}

\* except Exception as e: every class above derives from Exception
HandlerCatches_apiErrorOnly(exc) == exc = "APIError"

HandlerCatches(exc) == exc \in ExceptionClasses

(***************************************************************************)
(* dict: a sequence of <<key, value>> with distinct keys, in insertion     *)
(* order.                                                                  *)
(***************************************************************************)
DictHas(dct, key) == \E k \in 1..Len(dct) : dct[k][1] = key

DictPut(dct, key, val) ==
    IF DictHas(dct, key)
    THEN [k \in 1..Len(dct) |-> IF dct[k][1] = key THEN <<key, val>> ELSE dct[k]]
    ELSE Append(dct, <<key, val>>)

RECURSIVE DictOf(_)
\* {k: v for k, v in pairs}
DictOf(pairs) ==
    IF pairs = <<>> THEN <<>>
    ELSE LET n == Len(pairs)
         IN  DictPut(DictOf(SubSeq(pairs, 1, n - 1)), pairs[n][1], pairs[n][2])

DictKeys(dct) == {dct[k][1] : k \in 1..Len(dct)}

\* dct.get(key, default)
DictGet(dct, key, default) ==
    IF DictHas(dct, key)
    THEN LET k == CHOOSE k \in 1..Len(dct) : dct[k][1] = key IN dct[k][2]
    ELSE default

(***************************************************************************)
(* The four call sites that persist extracted text.                        *)
(***************************************************************************)
BatchSites == {"tool", "main"}       \* call extract_text_from_multiple_images
DirectSites == {"all", "specific"}   \* probe and extract image by image
Sites == BatchSites \cup DirectSites

\* len(extracted_text.strip()) > N
Threshold(s) ==
    CASE s = "tool" -> 20
      [] s = "main" -> 5
      [] s = "all" -> 10
      [] s = "specific" -> 10

EnglishRefusals == {"i'm unable to", "i can't assist", "i'm sorry", "i cannot",
                    "unable to provide", "can't help"}

KoreanRefusals == {"joesonghajiman", "chuchulhal su eopsseumnida"}

\* invalid_responses of the call site
Denylist(s) ==
    IF s = "all" THEN EnglishRefusals ELSE EnglishRefusals \cup KoreanRefusals

\* extracted_text and extracted_text.strip() and len(extracted_text.strip()) > N
LongEnough(s, t) ==
    Truthy(t) /\ Truthy(Strip(t)) /\ StrLen(Strip(t)) > Threshold(s)

\* any(invalid in extracted_text.lower() for invalid in invalid_responses)
IsRefusal_caseSensitive(s, t) == \E phrase \in Denylist(s) : Contains(t, phrase)

IsRefusal(s, t) == \E phrase \in Denylist(s) : Contains(Lower(t), phrase)

(***************************************************************************)
(* SpecExtract: one run of one call site over the images of a stored       *)
(* product.  A step is one probe, one Reasoning Service call, one sleep,   *)
(* or the handling of one result.                                          *)
(***************************************************************************)
\* the lists of detail image URLs, up to the renaming of the two URLs
ImageUrlLists ==
    {urls \in UNION {[1..n -> ImageUrls] : n \in 0..MaxImages} :
        urls = <<>> \/ urls[1] = "https://image/a.jpg"}

\* the store after a product with these detail images was saved
StoreWithImages(urls) ==
    [EmptyDb EXCEPT
       !.products = <<[id |-> 1, url |-> "https://www.oliveyoung.co.kr/A",
                       name |-> "toner"]>>,
       !.seq_products = 1,
       !.images = [k \in 1..Len(urls) |->
                      [id |-> k, product_id |-> 1, image_url |-> urls[k]]],
       !.seq_images = Len(urls)]

InitExtract ==
    /\ \E s \in Sites, urls \in ImageUrlLists :
         /\ site = s
         /\ db = StoreWithImages(urls)
         /\ calls = [k \in 1..Len(urls) |-> 0]
         /\ outcome = [k \in 1..Len(urls) |-> "none"]
    /\ lastCall = NoCall
    /\ lastTrue = <<>>
    /\ saves = 0
    /\ images = <<>>
    /\ i = 0
    /\ pc = "start"
    /\ attempt = 0
    /\ results = <<>>
    /\ extracted_texts = <<>>
    /\ text = <<>>
    /\ log = <<>>
    /\ raised = FALSE
    /\ PipeIdle
    /\ CallIdle
    /\ ScrapeIdle

\* product_images = get_product_images_with_ids(product_id);
\* if not product_images: return
ReadImages ==
    /\ pc = "start"
    /\ images' = db.images
    /\ i' = 1
    /\ pc' = IF db.images = <<>> THEN "done"
             ELSE IF site \in BatchSites THEN "b_validate" ELSE "d_validate"
    /\ UNCHANGED <<storeVars, site, attempt, results, extracted_texts, text,
                   calls, outcome, log, raised, pipeVars, callVars, scrapeVars>>

\* results.append((url, "")); continue
OnProbeFailure_skip(res, url) == res

OnProbeFailure(res, url) == Append(res, <<url, <<>>>>)

\* if not await self.validate_image_url(url): ...
BatchValidate ==
    /\ pc = "b_validate"
    /\ i <= Len(images)
    /\ \E p \in ProbeOutcomes :
         /\ IF validate_image_url(p)
            THEN /\ pc' = "b_extract"
                 /\ attempt' = 1
                 /\ UNCHANGED <<i, results, outcome>>
            ELSE /\ results' = OnProbeFailure(results, images[i].image_url)
                 /\ outcome' = [outcome EXCEPT ![i] = "probe_failed"]
                 /\ i' = i + 1
                 /\ UNCHANGED <<pc, attempt>>
         /\ log' = Append(log, <<ProbeAnswer(p), i>>)
    /\ UNCHANGED <<storeVars, site, images, extracted_texts, text, calls,
                   raised, pipeVars, callVars, scrapeVars>>

\* one attempt of text = await self.extract_text_from_image_url(url, ...)
BatchExtract ==
    /\ pc = "b_extract"
    /\ calls' = [calls EXCEPT ![i] = @ + 1]
    /\ \E reply \in Replies :
         IF reply.kind = "raise"
         THEN IF ~ShouldStop(attempt)
              THEN \* wait=wait_fixed(5): the retry loop suspends in
                   \* asyncio.sleep(5) before the next attempt
                   /\ attempt' = attempt + 1
                   /\ log' = log \o <<<<"call", i>>, <<"wait5", i>>>>
                   /\ pc' = "b_wait5"
                   /\ UNCHANGED <<i, results, outcome, raised>>
              ELSE \* RetryError reaches except Exception of the loop
                   /\ log' = Append(log, <<"call", i>>)
                   /\ outcome' = [outcome EXCEPT ![i] = "exhausted"]
                   /\ IF HandlerCatches("RetryError")
                      THEN /\ results' = Append(results, <<images[i].image_url, <<>>>>)
                           /\ i' = i + 1
                           /\ pc' = "b_validate"
                           /\ UNCHANGED raised
                      ELSE /\ raised' = TRUE
                           /\ pc' = "done"
                           /\ UNCHANGED <<i, results>>
                   /\ UNCHANGED attempt
         ELSE /\ results' = Append(results, <<images[i].image_url, ReturnedText(reply)>>)
              /\ outcome' = [outcome EXCEPT ![i] = "ok"]
              /\ log' = log \o <<<<"call", i>>, <<"ok", i>>>>
              /\ IF i < Len(images)
                 THEN pc' = "b_sleep" /\ UNCHANGED i
                 ELSE pc' = "b_validate" /\ i' = i + 1
              /\ UNCHANGED <<attempt, raised>>
    /\ UNCHANGED <<storeVars, site, images, extracted_texts, text, pipeVars, callVars, scrapeVars>>

\* the 5 s wait of the retry loop is over: the next attempt is made
BatchRetryWait ==
    /\ pc = "b_wait5"
    /\ pc' = "b_extract"
    /\ UNCHANGED <<storeVars, site, images, i, attempt, results, extracted_texts,
                   text, calls, outcome, log, raised, pipeVars, callVars, scrapeVars>>

\* if i < len(image_urls): await asyncio.sleep(2)
BatchSleep ==
    /\ pc = "b_sleep"
    /\ log' = Append(log, <<"sleep2", i>>)
    /\ i' = i + 1
    /\ pc' = "b_validate"
    /\ UNCHANGED <<storeVars, site, images, attempt, results, extracted_texts,
                   text, calls, outcome, raised, pipeVars, callVars, scrapeVars>>

\* extracted_texts = {url: text for url, text in results}; return extracted_texts
BatchReturn ==
    /\ pc = "b_validate"
    /\ i > Len(images)
    /\ extracted_texts' = DictOf(results)
    /\ i' = 1
    /\ pc' = "persist"
    /\ UNCHANGED <<storeVars, site, images, attempt, results, text, calls,
                   outcome, log, raised, pipeVars, callVars, scrapeVars>>

\* image_data = {img[3]: (img[0], img[1], img[2]) for img in product_images}
ImageData(rows) ==
    DictOf([k \in 1..Len(rows) |-> <<rows[k].image_url, rows[k].id>>])

\* the body of a call site's result handling: the length test, the denylist
\* test, then save_image_text; fail: a statement of the save raises
HandleResult(s, d, image_id, product_id, image_url, extracted_text, fail) ==
    IF LongEnough(s, extracted_text)
    THEN IF IsRefusal(s, extracted_text)
         THEN [db |-> d, verdict |-> "refused"]
         ELSE LET r == save_image_text(d, image_id, product_id, image_url,
                                       extracted_text, fail)
              IN  [db |-> r.db,
                   verdict |-> IF r.returned THEN "saved" ELSE "save_failed"]
    ELSE [db |-> d, verdict |-> "short"]

\* ImageTextExtractionTool._arun:
\* for i, (image_url, extracted_text) in enumerate(extracted_texts_map.items(), 1)
ToolPersist ==
    /\ site = "tool"
    /\ pc = "persist"
    /\ i <= Len(extracted_texts)
    /\ \E fail \in BOOLEAN :
         LET image_url == extracted_texts[i][1]
             image_id == DictGet(ImageData(images), image_url, 0)
             r == HandleResult(site, db, image_id, 1, image_url,
                               extracted_texts[i][2], fail)
         IN  /\ db' = r.db
             /\ log' = Append(log, <<r.verdict, image_id>>)
    /\ i' = i + 1
    /\ UNCHANGED <<lastCall, lastTrue, saves, site, images, pc, attempt, results,
                   extracted_texts, text, calls, outcome, raised, pipeVars, callVars, scrapeVars>>

\* main.extract_image_texts:
\* for i, (image_id, _, product_name, image_url) in enumerate(product_images, 1)
MainPersist ==
    /\ site = "main"
    /\ pc = "persist"
    /\ i <= Len(images)
    /\ \E fail \in BOOLEAN :
         LET img == images[i]
             r == HandleResult(site, db, img.id, 1, img.image_url,
                               DictGet(extracted_texts, img.image_url, <<>>), fail)
         IN  /\ db' = r.db
             /\ log' = Append(log, <<r.verdict, img.id>>)
    /\ i' = i + 1
    /\ UNCHANGED <<lastCall, lastTrue, saves, site, images, pc, attempt, results,
                   extracted_texts, text, calls, outcome, raised, pipeVars, callVars, scrapeVars>>

\* the result loop is exhausted: the call site returns
PersistDone ==
    /\ pc = "persist"
    /\ i > (IF site = "tool" THEN Len(extracted_texts) ELSE Len(images))
    /\ pc' = "done"
    /\ UNCHANGED <<storeVars, site, images, i, attempt, results, extracted_texts,
                   text, calls, outcome, log, raised, pipeVars, callVars, scrapeVars>>

\* process_all_product_images / process_specific_product_images:
\* is_valid = await extractor.validate_image_url(image_url)
DirectValidate ==
    /\ pc = "d_validate"
    /\ i <= Len(images)
    /\ \E p \in ProbeOutcomes :
         /\ IF validate_image_url(p)
            THEN /\ pc' = "d_extract"
                 /\ attempt' = 1
                 /\ UNCHANGED <<i, outcome>>
            ELSE /\ outcome' = [outcome EXCEPT ![i] = "probe_failed"]
                 /\ i' = i + 1
                 /\ UNCHANGED <<pc, attempt>>
         /\ log' = Append(log, <<ProbeAnswer(p), i>>)
    /\ UNCHANGED <<storeVars, site, images, results, extracted_texts, text,
                   calls, raised, pipeVars, callVars, scrapeVars>>

\* one attempt of extracted_text = await extractor.extract_text_from_image_url(image_url)
DirectExtract ==
    /\ pc = "d_extract"
    /\ calls' = [calls EXCEPT ![i] = @ + 1]
    /\ \E reply \in Replies :
         IF reply.kind = "raise"
         THEN IF ~ShouldStop(attempt)
              THEN \* the retry loop suspends in asyncio.sleep(5)
                   /\ attempt' = attempt + 1
                   /\ log' = log \o <<<<"call", i>>, <<"wait5", i>>>>
                   /\ pc' = "d_wait5"
                   /\ UNCHANGED <<i, text, outcome, raised>>
              ELSE \* RetryError reaches except Exception of the image's try
                   /\ log' = Append(log, <<"call", i>>)
                   /\ outcome' = [outcome EXCEPT ![i] = "exhausted"]
                   /\ IF HandlerCatches("RetryError")
                      THEN /\ i' = i + 1
                           /\ pc' = "d_validate"
                           /\ UNCHANGED raised
                      ELSE /\ raised' = TRUE
                           /\ pc' = "done"
                           /\ UNCHANGED i
                   /\ UNCHANGED <<attempt, text>>
         ELSE /\ text' = ReturnedText(reply)
              /\ outcome' = [outcome EXCEPT ![i] = "ok"]
              /\ log' = log \o <<<<"call", i>>, <<"ok", i>>>>
              /\ pc' = "d_check"
              /\ UNCHANGED <<i, attempt, raised>>
    /\ UNCHANGED <<storeVars, site, images, results, extracted_texts, pipeVars, callVars, scrapeVars>>

\* the 5 s wait of the retry loop is over: the next attempt is made
DirectRetryWait ==
    /\ pc = "d_wait5"
    /\ pc' = "d_extract"
    /\ UNCHANGED <<storeVars, site, images, i, attempt, results, extracted_texts,
                   text, calls, outcome, log, raised, pipeVars, callVars, scrapeVars>>

\* the length test, the denylist test (continue on a refusal), the save, then
\* if i < len(images): await asyncio.sleep(2)
DirectCheck ==
    /\ pc = "d_check"
    /\ \E fail \in BOOLEAN :
         LET img == images[i]
             r == HandleResult(site, db, img.id, 1, img.image_url, text, fail)
         IN  /\ db' = r.db
             /\ log' = Append(log, <<r.verdict, img.id>>)
             /\ IF r.verdict # "refused" /\ i < Len(images)
                THEN pc' = "d_sleep" /\ UNCHANGED i
                ELSE pc' = "d_validate" /\ i' = i + 1
    /\ UNCHANGED <<lastCall, lastTrue, saves, site, images, attempt, results,
                   extracted_texts, text, calls, outcome, raised, pipeVars, callVars, scrapeVars>>

DirectSleep ==
    /\ pc = "d_sleep"
    /\ log' = Append(log, <<"sleep2", i>>)
    /\ i' = i + 1
    /\ pc' = "d_validate"
    /\ UNCHANGED <<storeVars, site, images, attempt, results, extracted_texts,
                   text, calls, outcome, raised, pipeVars, callVars, scrapeVars>>

\* the image loop is exhausted: the call site returns
DirectDone ==
    /\ pc = "d_validate"
    /\ i > Len(images)
    /\ pc' = "done"
    /\ UNCHANGED <<storeVars, site, images, i, attempt, results, extracted_texts,
                   text, calls, outcome, log, raised, pipeVars, callVars, scrapeVars>>

NextExtract ==
    \/ ReadImages
    \/ BatchValidate \/ BatchExtract \/ BatchRetryWait \/ BatchSleep \/ BatchReturn
    \/ ToolPersist \/ MainPersist \/ PersistDone
    \/ DirectValidate \/ DirectExtract \/ DirectRetryWait \/ DirectCheck
    \/ DirectSleep \/ DirectDone

SpecExtract == InitExtract /\ [][NextExtract]_vars

ExtractTypeOK ==
    /\ site \in Sites
    /\ pc \in {"start", "b_validate", "b_extract", "b_wait5", "b_sleep", "persist",
               "d_validate", "d_extract", "d_wait5", "d_check", "d_sleep", "done"}
    /\ attempt \in 0..MaxAttempts

(***************************************************************************)
(* Properties of the extraction call sites (SpecExtract).                  *)
(***************************************************************************)
\* extract_text_from_multiple_images has returned its mapping to the call site
BatchReturned ==
    /\ site \in BatchSites
    /\ pc \in {"persist", "done"}
    /\ images # <<>>
    /\ ~raised

InputUrls == {images[k].image_url : k \in 1..Len(images)}

\* C1: the mapping returned by the batch extraction has exactly one entry for
\* each distinct URL of its input list, and no other entry.
C1_OneEntryPerDistinctUrl ==
    BatchReturned =>
        /\ DictKeys(extracted_texts) = InputUrls
        /\ Len(extracted_texts) = Cardinality(InputUrls)

\* a list that names the same URL twice, whose probe failed, came back as
\* a single entry
C1_Witness ==
    /\ BatchReturned
    /\ Len(images) = 2
    /\ images[1].image_url = images[2].image_url
    /\ outcome[1] = "probe_failed"
    /\ Len(extracted_texts) = 1

\* C2: the batch extraction never lets an exception escape: an image whose
\* probe or extraction fails gets the empty text, the loop goes on to the
\* next URL, and every input position has its result when it returns.
C2_BatchNeverRaises ==
    /\ ~raised
    /\ (site \in BatchSites /\ pc = "b_validate") => Len(results) = i - 1
    /\ BatchReturned =>
         /\ Len(results) = Len(images)
         /\ \A k \in 1..Len(images) :
              /\ results[k][1] = images[k].image_url
              /\ outcome[k] \in {"probe_failed", "exhausted"} => results[k][2] = <<>>

\* the first image used up its attempts and the second was still extracted
C2_Witness ==
    /\ BatchReturned
    /\ Len(images) = 2
    /\ outcome[1] = "exhausted"
    /\ outcome[2] = "ok"
    /\ results[1][2] = <<>>
    /\ results[2][2] # <<>>

\* C3 as stated: every non-empty value of the returned mapping passed the
\* length threshold and holds no denylist phrase.
C3_AsStated ==
    BatchReturned =>
        \A k \in 1..Len(extracted_texts) :
            LET t == extracted_texts[k][2]
            IN  t # <<>> => (LongEnough(site, t) /\ ~IsRefusal(site, t))

\* C3, amended: the mapping holds the stripped reply as it came; what a caller
\* of the batch extraction writes to the store from the mapping is longer
\* than that caller's threshold and holds no denylist phrase in any letter case.
C3_PersistedFromMappingIsValidated ==
    site \in BatchSites =>
        \A k \in 1..Len(db.texts) :
            LET t == db.texts[k].extracted_text
            IN  /\ StrLen(Strip(t)) > Threshold(site)
                /\ \A phrase \in Denylist(site) : ~Contains(Lower(t), phrase)
                /\ \E m \in 1..Len(extracted_texts) :
                      /\ extracted_texts[m][1] = db.texts[k].image_url
                      /\ extracted_texts[m][2] = t

\* the mapping came back with a refusal for one URL and a text for the other;
\* only the text was written
C3_Witness ==
    /\ BatchReturned
    /\ pc = "done"
    /\ \E m \in 1..Len(extracted_texts) :
          /\ Contains(Lower(extracted_texts[m][2]), "i cannot")
          /\ \A k \in 1..Len(db.texts) :
                db.texts[k].image_url # extracted_texts[m][1]
    /\ db.texts # <<>>

\* C4 as stated: at each of the four call sites no extraction holding
\* "i cannot" in any letter case, or the Korean apology, is written to the
\* store.
C4_RefusalNeverWritten ==
    \A k \in 1..Len(db.texts) :
        LET t == db.texts[k].extracted_text
        IN  /\ ~Contains(Lower(t), "i cannot")
            /\ ~Contains(t, "joesonghajiman")

\* C5: an image that passed the probe costs at most three Reasoning Service
\* calls; a call that raised is followed by the fixed delay, in which the run
\* is suspended and makes no call, before the next one; no call follows a
\* successful one; after the third exception the image's entry is the empty
\* text.
C5_AtMostThreeAttempts ==
    /\ [](\A k \in 1..Len(calls) :
            /\ calls[k] <= 3
            /\ outcome[k] = "exhausted" =>
                  /\ calls[k] = 3
                  /\ (site \in BatchSites /\ Len(results) >= k) => results[k][2] = <<>>)
    /\ [][\A k \in 1..Len(calls) :
            calls'[k] # calls[k] =>
                /\ calls'[k] = calls[k] + 1
                /\ outcome[k] = "none"
                /\ calls[k] > 0 => log[Len(log)] = <<"wait5", k>>
                /\ attempt' # attempt => pc' \in {"b_wait5", "d_wait5"}]_vars
    /\ [][(pc \in {"b_wait5", "d_wait5"}) =>
            /\ log[Len(log)] = <<"wait5", i>>
            /\ calls' = calls
            /\ pc' \in {"b_extract", "d_extract"}]_vars

\* one image took all three calls and failed, the next succeeded on its
\* second call
C5_Witness ==
    /\ BatchReturned
    /\ Len(images) = 2
    /\ calls[1] = 3 /\ outcome[1] = "exhausted"
    /\ calls[2] = 2 /\ outcome[2] = "ok"
    /\ extracted_texts # <<>>

(***************************************************************************)
(* SpecPipeline: one run of SimpleOliveYoungAgent.process_url_simple over  *)
(* a store that holds the product of an earlier run, or not.  A step is    *)
(* one stage of the pipeline with the code that formats its report.        *)
(***************************************************************************)
PipeUrls == Urls \cup {"https://example.com/item"}

\* "oliveyoung.co.kr" in url, over PipeUrls
IsOliveYoungUrl(url) == url \in Urls

\* the stores a run can start from: nothing stored, or one earlier save
PipeStores ==
    {EmptyDb}
    \cup {save_product_info(EmptyDb, info, url, 0).db :
             info \in {x \in InfoSamples : x.name = "toner"}, url \in Urls}

Stages == <<"extraction", "summary", "review", "evaluation", "claims", "stats">>

InitPipeline ==
    /\ \E url \in PipeUrls, d \in PipeStores :
         /\ p_url = url
         /\ db = d
    /\ lastCall = NoCall
    /\ lastTrue = <<>>
    /\ saves = 0
    /\ ExtractIdle
    /\ CallIdle
    /\ ScrapeIdle
    /\ p_pc = "scrape"
    /\ p_product_id = 0
    /\ p_scrape = "none"
    /\ p_tool = NoTool
    /\ p_lookup = "none"
    /\ p_ran = <<>>
    /\ p_slots = <<>>
    /\ p_return = "none"

\* ScrapingTool._arun(url): the kind of the string it returns, the product
\* id the string names (0: none), and the store it leaves.  how: what the
\* scraper and the id query do; info, fail: the product scraped and the
\* statement of save_product_info that raises.
ScrapingTool_arun(d, url, how, info, fail) ==
    IF ~IsOliveYoungUrl(url)
    THEN [db |-> d, kind |-> "not_oliveyoung", id |-> 0, save |-> "none"]
    ELSE IF how = "scrape_raises"
    THEN [db |-> d, kind |-> "failed", id |-> 0, save |-> "none"]
    ELSE LET saved == save_product_info(d, info, url, fail)
             found == SelectProductId(saved.db, url)
         IN  IF how = "select_raises"
             THEN [db |-> saved.db, kind |-> "failed", id |-> 0, save |-> saved.outcome]
             ELSE IF found # 0
             THEN [db |-> saved.db, kind |-> "ok", id |-> found, save |-> saved.outcome]
             ELSE [db |-> saved.db, kind |-> "no_id", id |-> 0, save |-> saved.outcome]

\* scraping_result = await self.scraping_tool._arun(url): the tool checks the
\* URL; a URL that is not of the shop is answered at once and the run goes on
\* to the lookup; otherwise the tool makes the scraper and awaits
\* scraper.scrape(url), which gives the other runs their turn
ScrapeStart ==
    /\ p_pc = "scrape"
    /\ IF IsOliveYoungUrl(p_url)
       THEN /\ p_pc' = "scrape_await"
            /\ UNCHANGED p_scrape
       ELSE /\ p_scrape' = ScrapingTool_arun(db, p_url, "returns", None, 0).kind
            /\ p_pc' = "lookup"
    /\ UNCHANGED <<storeVars, extractVars, callVars, scrapeVars,
                   p_url, p_product_id, p_tool, p_lookup, p_ran, p_slots, p_return>>

\* the await of scraper.scrape is over: the rest of the body of
\* async with OliveYoungScraper(...), which is the save and the id query on
\* the store as it is now.  The value to return waits for the exit of the
\* scraper.
StageScrape ==
    /\ p_pc = "scrape_await"
    /\ \E how \in {"scrape_raises", "select_raises", "returns"},
          info \in InfoSamples, fail \in 0..TxSteps :
         LET r == ScrapingTool_arun(db, p_url, how, info, fail)
         IN  /\ db' = r.db
             /\ lastCall' = IF r.save = "none" THEN lastCall
                            ELSE [op |-> "save_product_info", url |-> p_url,
                                  info |-> info, image_id |-> 0, text |-> <<>>,
                                  outcome |-> r.save,
                                  found |-> SelectProductId(db, p_url),
                                  step |-> 0]
             /\ p_tool' = [kind |-> r.kind, id |-> r.id]
    /\ p_pc' = "scrape_exit"
    /\ UNCHANGED <<lastTrue, saves, extractVars, callVars, scrapeVars,
                   p_url, p_product_id, p_scrape, p_lookup, p_ran, p_slots, p_return>>

\* the await of the scraper's __aexit__ is over: the tool returns the string
\* formed in the block, or, when the exit raised, the "scrape failed" string
\* of its except clause; then re.search(r"제품 ID: (\d+)", scraping_result)
\* sets product_id
ScrapeExit ==
    /\ p_pc = "scrape_exit"
    /\ \E exit_raises \in BOOLEAN :
         LET kind == IF exit_raises THEN "failed" ELSE p_tool.kind
             id   == IF exit_raises THEN 0 ELSE p_tool.id
         IN  /\ p_scrape' = kind
             /\ p_product_id' = id
             /\ p_pc' = IF id = 0 THEN "lookup" ELSE "extraction"
    /\ p_tool' = NoTool
    /\ UNCHANGED <<storeVars, extractVars, callVars, scrapeVars,
                   p_url, p_lookup, p_ran, p_slots, p_return>>

\* SELECT id FROM products WHERE url = ? ORDER BY id DESC LIMIT 1; 0: no row
SelectLatestProductId(d, url) ==
    LET ids == {d.products[k].id : k \in {m \in 1..Len(d.products) :
                                            d.products[m].url = url}}
    IN  IF ids = {} THEN 0 ELSE CHOOSE x \in ids : \A y \in ids : y <= x

\* the try block of the fallback: the id found, 0 when no row is found or
\* when a statement raises (except Exception logs and goes on)
FallbackLookup_off(d, url, raises) == 0

FallbackLookup(d, url, raises) ==
    IF raises THEN 0 ELSE SelectLatestProductId(d, url)

\* if not product_id: ... look the URL up in the store
StageLookup ==
    /\ p_pc = "lookup"
    /\ \E raises \in BOOLEAN :
         LET id == FallbackLookup(db, p_url, raises)
         IN  /\ p_product_id' = id
             /\ p_lookup' = IF raises THEN "raised"
                            ELSE IF id # 0 THEN "found" ELSE "missing"
             /\ p_pc' = IF id # 0 THEN "extraction" ELSE "hard_failure"
    /\ UNCHANGED <<storeVars, extractVars, callVars, scrapeVars,
                   p_url, p_scrape, p_tool, p_ran, p_slots,
                   p_return>>

\* else: return the "product id not found" report
ReturnHardFailure ==
    /\ p_pc = "hard_failure"
    /\ p_return' = "hard_failure"
    /\ p_pc' = "done"
    /\ UNCHANGED <<storeVars, extractVars, callVars, scrapeVars,
                   p_url, p_product_id, p_scrape, p_tool,
                   p_lookup, p_ran, p_slots>>

\* what a stage's callee hands back to process_url_simple.  The tools
\* return a report string; the analyses return parsed Reasoning Service JSON:
\*   review      {} | groups with lists | a group whose "advantages" is null
\*   evaluation  the scores | {"error": ...}
\*   claims      None | contradictions as objects | contradictions as strings
\*   stats       the report | the error report | "raises": sqlite3.connect
\*               raised in DatabaseQueryTool._run, whose finally clause then
\*               calls con.close() on the unbound con (UnboundLocalError)
StageShapes(stage) ==
    CASE stage = "extraction" -> {"report", "error_report"}
      [] stage = "summary" -> {"report", "error_report"}
      [] stage = "review" -> {"empty", "lists", "null_list"}
      [] stage = "evaluation" -> {"scores", "error"}
      [] stage = "claims" -> {"none", "objects", "strings"}
      [] stage = "stats" -> {"report", "error_report", "raises"}

\* the callee of the stage raises instead of handing something back
CalleeRaises(stage, shape) == stage = "stats" /\ shape = "raises"

\* the code between two stages raises: len(advantages) on None,
\* contradiction.get(...) on a str
GlueRaises(stage, shape) ==
    \/ stage = "review" /\ shape = "null_list"
    \/ stage = "claims" /\ shape = "strings"

\* the stage's part of the final report: if result: ... else: "failed"
SlotOf(stage, shape) ==
    CASE stage \in {"extraction", "summary", "stats"} -> shape
      [] stage = "review" -> IF shape = "empty" THEN "failed" ELSE "done"
      [] stage = "evaluation" -> "done"
      [] stage = "claims" -> IF shape = "none" THEN "failed" ELSE "done"

NextStage_reviewFirst(stage) ==
    CASE stage = "extraction" -> "review"
      [] stage = "review" -> "summary"
      [] stage = "summary" -> "evaluation"
      [] stage = "evaluation" -> "claims"
      [] stage = "claims" -> "stats"
      [] stage = "stats" -> "return"

NextStage(stage) ==
    CASE stage = "extraction" -> "summary"
      [] stage = "summary" -> "review"
      [] stage = "review" -> "evaluation"
      [] stage = "evaluation" -> "claims"
      [] stage = "claims" -> "stats"
      [] stage = "stats" -> "return"

\* the stages after the extraction, and where a run stands while the callee
\* of a stage is under way.  The callees of the first four are awaited;
\* query_tool._run is called without await.
LaterStages == {"summary", "review", "evaluation", "claims", "stats"}

AwaitOf(stage) ==
    CASE stage = "extraction" -> "extraction_await"
      [] stage = "summary" -> "summary_await"
      [] stage = "review" -> "review_await"
      [] stage = "evaluation" -> "evaluation_await"
      [] stage = "claims" -> "claims_await"
      [] stage = "stats" -> "stats_call"

\* the positions at which the run is suspended in an await, so that the event
\* loop runs other coroutines
Suspended ==
    {"scrape_await", "scrape_exit"}
    \cup {AwaitOf(stage) : stage \in {"extraction", "summary", "review",
                                      "evaluation", "claims"}}

\* the stage's callee is called: summary_tool._arun, analyze_product_reviews,
\* evaluate_product, analyze_claims_vs_reality, query_tool._run
StageStart(stage) ==
    /\ p_pc = stage
    /\ p_ran' = Append(p_ran, stage)
    /\ p_pc' = AwaitOf(stage)
    /\ UNCHANGED <<storeVars, extractVars, callVars, scrapeVars,
                   p_url, p_product_id, p_scrape, p_tool, p_lookup, p_slots,
                   p_return>>

\* the callee is back and the stage's report is formatted; an exception of
\* the callee or of the formatting reaches the except Exception of
\* process_url_simple
StageReturn(stage) ==
    /\ p_pc = AwaitOf(stage)
    /\ \E shape \in StageShapes(stage) :
         IF CalleeRaises(stage, shape) \/ GlueRaises(stage, shape)
         THEN /\ p_return' = "error"
              /\ p_pc' = "done"
              /\ UNCHANGED p_slots
         ELSE /\ p_slots' = Append(p_slots, <<stage, shape, SlotOf(stage, shape)>>)
              /\ p_pc' = NextStage(stage)
              /\ UNCHANGED p_return
    /\ UNCHANGED <<storeVars, extractVars, callVars, scrapeVars,
                   p_url, p_product_id, p_scrape, p_tool, p_lookup, p_ran>>

\* get_product_images_with_ids(product_id): the rows as <<image_id, image_url>>
ProductImages(d, pid) ==
    LET rows == SelectSeq(d.images, LAMBDA r : r.product_id = pid)
    IN  [k \in 1..Len(rows) |-> <<rows[k].id, rows[k].image_url>>]

\* other runs whose save_product_info commits while this run is suspended
MaxOtherSaves == 2

\* the products the other runs scraped: one with one image, and one of
\* another name with two images
OtherRunInfos ==
    {x \in InfoSamples :
        \/ x.name = "toner" /\ x.detail_images = <<"https://image/a.jpg">>
        \/ x.name = "cream" /\ Len(x.detail_images) = 2}

\* extraction_result = await self.extraction_tool._arun(product_id), first
\* part: the tool reads the product's images and awaits the extractor
\* (extract_text_from_multiple_images), which gives the event loop and the
\* other processes on the store their turn
ExtractionRead ==
    /\ p_pc = "extraction"
    /\ p_ran' = Append(p_ran, "extraction")
    /\ \E raises \in BOOLEAN :
          images' = IF raises THEN <<>> ELSE ProductImages(db, p_product_id)
    /\ i' = 0
    /\ p_pc' = AwaitOf("extraction")
    /\ UNCHANGED <<storeVars, callVars, scrapeVars,
                   site, pc, attempt, results, extracted_texts, text,
                   calls, outcome, log, raised,
                   p_url, p_product_id, p_scrape, p_tool, p_lookup, p_slots, p_return>>

\* another pipeline run stores the same URL while this run is suspended in
\* an await, or after this run has returned
OtherRunSaves ==
    /\ p_pc \in Suspended \cup {"done"}
    /\ saves < MaxOtherSaves
    /\ \E info \in OtherRunInfos :
          db' = save_product_info(db, info, p_url, 0).db
    /\ saves' = saves + 1
    /\ UNCHANGED <<lastCall, lastTrue, extractVars, pipeVars, callVars, scrapeVars>>

\* the loop over extracted_texts_map.items(): the text of the next image read
\* is stored with save_image_text under the image id read, or the image is
\* counted as failed
ExtractionSave ==
    /\ p_pc = "extraction_await"
    /\ i < Len(images)
    /\ i' = i + 1
    /\ \E stored \in BOOLEAN :
          db' = IF stored
                THEN save_image_text(db, images[i + 1][1], p_product_id,
                                     images[i + 1][2],
                                     <<"ingredients: water, glycerin">>, FALSE).db
                ELSE db
    /\ UNCHANGED <<lastCall, lastTrue, saves, pipeVars, callVars, scrapeVars,
                   site, images, pc, attempt, results, extracted_texts, text,
                   calls, outcome, log, raised>>

\* the tool returns (its locals are gone): the error report when it read no
\* image or when the read or the extractor raised, the report after the loop
ExtractionReturn ==
    /\ p_pc = "extraction_await"
    /\ \E shape \in StageShapes("extraction") :
          /\ shape = "report" => (images # <<>> /\ i = Len(images))
          /\ shape = "error_report" => i = 0
          /\ p_slots' = Append(p_slots, <<"extraction", shape,
                                          SlotOf("extraction", shape)>>)
    /\ p_pc' = NextStage("extraction")
    /\ images' = <<>>
    /\ i' = 0
    /\ UNCHANGED <<storeVars, callVars, scrapeVars,
                   site, pc, attempt, results, extracted_texts, text,
                   calls, outcome, log, raised,
                   p_url, p_product_id, p_scrape, p_tool, p_lookup, p_ran, p_return>>

\* return the report of all stages
ReturnComplete ==
    /\ p_pc = "return"
    /\ p_return' = "complete"
    /\ p_pc' = "done"
    /\ UNCHANGED <<storeVars, extractVars, callVars, scrapeVars,
                   p_url, p_product_id, p_scrape, p_tool,
                   p_lookup, p_ran, p_slots>>

NextPipeline ==
    \/ ScrapeStart \/ StageScrape \/ ScrapeExit
    \/ StageLookup \/ ReturnHardFailure
    \/ ExtractionRead \/ OtherRunSaves \/ ExtractionSave \/ ExtractionReturn
    \/ \E stage \in LaterStages : StageStart(stage)
    \/ \E stage \in LaterStages : StageReturn(stage)
    \/ ReturnComplete

SpecPipeline == InitPipeline /\ [][NextPipeline]_vars

(***************************************************************************)
(* Properties of the pipeline (SpecPipeline).                              *)
(***************************************************************************)
UrlIsStored == \E k \in 1..Len(db.products) : db.products[k].url = p_url

\* C9 as stated: the lookup that follows a scrape without a product id ends
\* in the hard failure exactly when no product with the URL is stored at that
\* moment; otherwise the run goes on with the id of the latest such product.
C9_AsStated ==
    [][(p_pc = "lookup" /\ p_pc' # "lookup") =>
          /\ p_pc' = "hard_failure" <=> ~UrlIsStored
          /\ p_pc' # "hard_failure" =>
                p_product_id' = SelectLatestProductId(db, p_url)]_vars

\* C9, amended: the lookup that follows a scrape without a product id reads
\* the store as it is at that moment.  The run goes on to the extraction with
\* the id of the latest stored product of the URL when the lookup finds one;
\* it ends in the hard failure, with no later stage run, exactly when no
\* product with the URL is stored at that moment or the lookup raised.
C9_ResumeFromCache ==
    /\ [][(p_pc = "lookup" /\ p_pc' # "lookup") =>
            /\ p_pc' = "hard_failure" <=> (~UrlIsStored \/ p_lookup' = "raised")
            /\ p_pc' # "hard_failure" =>
                  /\ p_pc' = "extraction"
                  /\ p_lookup' = "found"
                  /\ p_product_id' # 0
                  /\ p_product_id' = SelectLatestProductId(db, p_url)]_vars
    /\ [][p_pc = "hard_failure" =>
            p_pc' = "done" /\ p_return' = "hard_failure" /\ p_ran' = <<>>]_vars
    /\ [](p_return = "hard_failure" => p_ran = <<>> /\ p_lookup # "found")
    /\ []((p_lookup = "found" /\ p_pc = "done") => p_ran # <<>>)

\* the scrape failed, the URL was stored by an earlier run, and the run went
\* through the later stages with the stored id
C9_Witness ==
    /\ p_scrape = "failed"
    /\ p_lookup = "found"
    /\ p_product_id = 1
    /\ p_return = "complete"

\* C10 as stated: once the product id is resolved every stage is attempted,
\* whatever the earlier stages did, and the statistics are read.
C10_StagesIsolated ==
    (p_pc = "done" /\ p_return # "hard_failure") => p_ran = Stages

\* C11: the stages of a run start in the fixed order scrape, extraction,
\* summary, review analysis, scoring, claims analysis, statistics; a stage
\* starts only when every stage started before it has returned and its report
\* is formed, and the report formed at a return is that of the one stage in
\* progress, so at most one stage is in progress, whatever other runs store
\* while the stage's callee is awaited.
C11_FixedStageOrder ==
    /\ [](/\ p_ran = SubSeq(Stages, 1, Len(p_ran))
          /\ p_ran # <<>> => (p_scrape # "none" /\ p_tool = NoTool)
          /\ Len(p_ran) - Len(p_slots) \in {0, 1})
    /\ [][p_ran' # p_ran =>
            /\ Len(p_slots) = Len(p_ran)
            /\ p_ran' = Append(p_ran, Stages[Len(p_ran) + 1])
            /\ p_slots' = p_slots
            /\ p_return = "none"]_vars
    /\ [][p_slots' # p_slots =>
            /\ Len(p_ran) = Len(p_slots) + 1
            /\ p_ran' = p_ran
            /\ Len(p_slots') = Len(p_ran)
            /\ p_slots'[Len(p_ran)][1] = p_ran[Len(p_ran)]]_vars

\* a run went through all the stages in order and returned the full report,
\* while another run stored the URL during one of its awaits
C11_Witness ==
    /\ p_ran = Stages
    /\ Len(p_slots) = Len(Stages)
    /\ p_scrape = "ok"
    /\ p_return = "complete"
    /\ saves > 0

\* the component of the stage returned an error or an empty result
StageFailed(shape) == shape \in {"error_report", "empty", "error", "none"}

\* the report ends with the line "all stages were completed successfully"
SaysAllSucceeded(ret) == ret = "complete"

\* C12 as stated: in the report returned by process_url_simple the slot of a
\* stage that failed describes the failure, and the report does not say that
\* all the stages succeeded.
C12_ReportTellsFailures ==
    p_return = "complete" =>
        \A k \in 1..Len(p_slots) :
            StageFailed(p_slots[k][2]) =>
                /\ p_slots[k][3] \in {"failed", "error_report"}
                /\ ~SaysAllSucceeded(p_return)

(***************************************************************************)
(* Scoring: src/product_evaluator.py.  Scores are floats in the code; the  *)
(* model keeps them exact as fractions [num, den] with den > 0.  Weights   *)
(* are kept in tenths (1.0 -> 10, 0.8 -> 8, 0.6 -> 6, 2.0 -> 20).          *)
(***************************************************************************)
MaxCount == 1

\* the review_rating strings of the store, in ORDER BY review_rating DESC
RatingOrder == <<"abc", "5", "4", "3", "2", "1", "0">>

\* int(rating_str); -1: ValueError
IntOf(rating_str) ==
    CASE rating_str = "5" -> 5
      [] rating_str = "4" -> 4
      [] rating_str = "3" -> 3
      [] rating_str = "2" -> 2
      [] rating_str = "1" -> 1
      [] rating_str = "0" -> 0
      [] OTHER -> -1

\* self.rating_weights.get(rating, 1.0), in tenths
Weight10(rating) ==
    CASE rating = 5 -> 10
      [] rating = 4 -> 8
      [] rating = 3 -> 6
      [] rating = 2 -> 20
      [] rating = 1 -> 20
      [] OTHER -> 10

\* get_product_review_ratings: the (review_rating, COUNT(*)) rows of a
\* product whose reviews carry rating r cnt[r] times
RatingRows(cnt) ==
    SelectSeq([k \in 1..Len(RatingOrder) |-> <<RatingOrder[k], cnt[RatingOrder[k]]>>],
              LAMBDA row : row[2] > 0)

RECURSIVE WeightedSums_countsUnparsed(_)
\* the loop without its except clause: an unparsable rating is counted
WeightedSums_countsUnparsed(rows) ==
    IF rows = <<>> THEN <<0, 0>>
    ELSE LET rest == WeightedSums_countsUnparsed(SubSeq(rows, 2, Len(rows)))
             rating == IntOf(rows[1][1])
             count == rows[1][2]
         IN  <<rest[1] + rating * count * Weight10(rating),
               rest[2] + count * Weight10(rating)>>

RECURSIVE WeightedSums(_)
\* the loop of calculate_weighted_score: <<weighted_sum, weight_sum>> in tenths
WeightedSums(rows) ==
    IF rows = <<>> THEN <<0, 0>>
    ELSE LET rest == WeightedSums(SubSeq(rows, 2, Len(rows)))
             rating == IntOf(rows[1][1])
             count == rows[1][2]
         IN  IF rating = -1 THEN rest
             ELSE <<rest[1] + rating * count * Weight10(rating),
                    rest[2] + count * Weight10(rating)>>

\* calculate_weighted_score: the weighted average as a fraction, or 0.0
\* with an error marker
calculate_weighted_score(rows) ==
    IF rows = <<>>
    THEN [num |-> 0, den |-> 1, error |-> "no_reviews"]
    ELSE LET sums == WeightedSums(rows)
         IN  IF sums[2] = 0
             THEN [num |-> 0, den |-> 1, error |-> "weight_sum_zero"]
             ELSE [num |-> sums[1], den |-> sums[2], error |-> "none"]

\* penalty_mapping.get(severity, 4.0)
PenaltyOf(severity) ==
    CASE severity = "high" -> 16
      [] severity = "medium" -> 8
      [] OTHER -> 4

RECURSIVE SumPenalties(_)
SumPenalties(contradictions) ==
    IF contradictions = <<>> THEN 0
    ELSE PenaltyOf(contradictions[1])
         + SumPenalties(SubSeq(contradictions, 2, Len(contradictions)))

\* max_penalty = 50.0
MaxPenalty == 50

\* the sum of the deductions without the cap
calculate_penalty_score_noCap(contradictions) == SumPenalties(contradictions)

\* _calculate_penalty_score; a finding is kept as its severity
calculate_penalty_score(contradictions) ==
    IF SumPenalties(contradictions) > MaxPenalty THEN MaxPenalty
    ELSE SumPenalties(contradictions)

\* detect_contradictions: <<contradictions, penalty>>.  has_summary: the
\* product has a detailed_summary; has_analysis: review_analysis rows exist;
\* ai: the findings the Reasoning Service lists, or <<"raise">> when the call or
\* the handling of its reply raises
detect_contradictions_noSummaryGuard(has_summary, has_analysis, ai) ==
    IF ~has_analysis \/ ai = <<"raise">> THEN <<<<>>, 0>>
    ELSE <<ai, calculate_penalty_score(ai)>>

detect_contradictions(has_summary, has_analysis, ai) ==
    IF ~has_summary \/ ~has_analysis \/ ai = <<"raise">> THEN <<<<>>, 0>>
    ELSE <<ai, calculate_penalty_score(ai)>>

\* the bands B+ and B taken for each other
get_evaluation_grade_swapped(num, den) ==
    CASE num >= 90 * den -> "A+"
      [] num < 90 * den /\ num >= 80 * den -> "A"
      [] num < 80 * den /\ num >= 70 * den -> "B"
      [] num < 70 * den /\ num >= 60 * den -> "B+"
      [] num < 60 * den /\ num >= 50 * den -> "C+"
      [] num < 50 * den /\ num >= 40 * den -> "C"
      [] OTHER -> "D"

\* _get_evaluation_grade, on a fraction
get_evaluation_grade(num, den) ==
    CASE num >= 90 * den -> "A+"
      [] num < 90 * den /\ num >= 80 * den -> "A"
      [] num < 80 * den /\ num >= 70 * den -> "B+"
      [] num < 70 * den /\ num >= 60 * den -> "B"
      [] num < 60 * den /\ num >= 50 * den -> "C+"
      [] num < 50 * den /\ num >= 40 * den -> "C"
      [] OTHER -> "D"

\* evaluate_product: the dict returned and the product_evaluations row
\* written by save_product_evaluation.  fault: a statement of the try block
\* raises; save_ok: the statements of save_product_evaluation succeed (when
\* they do not it returns False, which is logged)
evaluate_product(rows, has_summary, has_analysis, ai, fault, save_ok) ==
    LET base == calculate_weighted_score(rows)
        found == detect_contradictions(has_summary, has_analysis, ai)
        \* weighted_score_100 = (score_5 / 5.0) * 100.0; final = max(0.0, ... - penalty)
        num100 == 20 * base.num
        final == IF num100 - found[2] * base.den < 0 THEN 0
                 ELSE num100 - found[2] * base.den
    IN  IF fault THEN [kind |-> "error", error |-> "exception"]
        ELSE IF base.num = 0 THEN [kind |-> "error", error |-> "no_base_score"]
        ELSE [kind |-> "scores",
              weighted_num |-> num100, final_num |-> final, den |-> base.den,
              contradictions |-> found[1], penalty_score |-> found[2],
              grade |-> get_evaluation_grade(final, base.den),
              stored |-> IF save_ok
                         THEN [saved |-> TRUE, weighted_score |-> <<num100, base.den>>,
                               contradiction_penalties |-> found[2],
                               final_score |-> <<final, base.den>>]
                         ELSE [saved |-> FALSE]]

(***************************************************************************)
(* SpecCalls: one call of a function of the analysis components, on        *)
(* arguments drawn from the sets below.                                    *)
(***************************************************************************)
RatingCounts == [{RatingOrder[k] : k \in 1..Len(RatingOrder)} -> 0..MaxCount]

\* what the Reasoning Service lists as contradictions, by severity
AiFindings ==
    {<<"raise">>, <<>>, <<"high">>, <<"low", "medium">>,
     <<"high", "high", "high", "high">>}

\* the ratings another writer leaves when it stores the product's reviews
\* again while evaluate_product is suspended: none, or only ratings of 1
OtherCommits ==
    LET ratings == {RatingOrder[k] : k \in 1..Len(RatingOrder)}
    IN  {[r \in ratings |-> 0],
         [r \in ratings |-> IF r = "1" THEN MaxCount ELSE 0]}

\* cnt: the ratings calculate_weighted_score reads; now: the ratings the
\* store holds
EvaluateCalls ==
    {[op |-> "evaluate_product", state |-> "pending", cnt |-> c, now |-> c,
      has_summary |-> hs, has_analysis |-> ha, ai |-> ai, fault |-> fault,
      save_ok |-> ok] :
        c \in RatingCounts, hs \in BOOLEAN, ha \in BOOLEAN, ai \in AiFindings,
        fault \in BOOLEAN, ok \in BOOLEAN}

\* the call gets as far as await self.client.chat.completions.create in
\* _analyze_contradictions_with_ai: the base score is not 0, the product has
\* a summary and review analysis rows
ReachesAwait(c) ==
    /\ calculate_weighted_score(RatingRows(c.cnt)).num # 0
    /\ c.has_summary
    /\ c.has_analysis

\* what the call returns and stores, computed from what it read
EvaluateDone(c) ==
    [op |-> c.op, state |-> "returned", args |-> c,
     result |-> evaluate_product(RatingRows(c.cnt), c.has_summary,
                                 c.has_analysis, c.ai, c.fault, c.save_ok)]

\* evaluation_result = await self.product_evaluator.evaluate_product(product_id),
\* up to the await of the Reasoning Service, or to the end when the call does
\* not get there (a raising statement may stand before the await or after it)
ApplyEvaluateProduct ==
    /\ call.op = "evaluate_product"
    /\ call.state = "pending"
    /\ \E yields \in IF ~ReachesAwait(call) THEN {FALSE}
                     ELSE IF call.fault THEN BOOLEAN ELSE {TRUE} :
          call' = IF yields THEN [call EXCEPT !.state = "awaiting"]
                  ELSE EvaluateDone(call)
    /\ UNCHANGED <<storeVars, extractVars, pipeVars, scrapeVars>>

\* while the call is suspended another connection commits other reviews
OtherWriterCommits ==
    /\ call.op = "evaluate_product"
    /\ call.state = "awaiting"
    /\ call.now = call.cnt
    /\ \E c \in OtherCommits : call' = [call EXCEPT !.now = c]
    /\ UNCHANGED <<storeVars, extractVars, pipeVars, scrapeVars>>

\* the Reasoning Service answered: the penalty, the final score and the
\* product_evaluations row are computed from the ratings read before
ResumeEvaluateProduct ==
    /\ call.op = "evaluate_product"
    /\ call.state = "awaiting"
    /\ call' = EvaluateDone(call)
    /\ UNCHANGED <<storeVars, extractVars, pipeVars, scrapeVars>>

Returned(op) == call.op = op /\ call.state = "returned"

\* C13 as stated: for a product without a structured summary evaluate_product
\* returns an error result and no score.
C13_AsStated ==
    (Returned("evaluate_product") /\ ~call.args.has_summary) =>
        call.result.kind = "error"

\* C13, amended: for a product without a structured summary evaluate_product
\* does not raise; it returns the error result when no base score can be
\* computed, and otherwise the score of the weighted rating average alone,
\* with no contradiction and no penalty.
C13_NoSummaryNoPenalty ==
    (Returned("evaluate_product") /\ ~call.args.has_summary) =>
        /\ call.result.kind \in {"error", "scores"}
        /\ call.result.kind = "error" <=>
              (call.args.fault \/ WeightedSums(RatingRows(call.args.cnt))[1] = 0)
        /\ call.result.kind = "scores" =>
              /\ call.result.contradictions = <<>>
              /\ call.result.penalty_score = 0
              /\ call.result.final_num = call.result.weighted_num

\* a product with ratings, review analysis and findings of the Reasoning
\* Service but no summary got its unpenalised score
C13_Witness ==
    /\ Returned("evaluate_product")
    /\ ~call.args.has_summary
    /\ call.args.has_analysis
    /\ call.args.ai = <<"high">>
    /\ call.result.kind = "scores"
    /\ call.result.final_num > 0

\* C14 as stated: when the scraper returned a product and no statement of the
\* store raised, the product is stored under the URL as scraped and the run
\* goes on with the id of that row, whatever field the scrape left empty.
C14_ScrapedProductPersisted ==
    (/\ lastCall.op = "save_product_info"
     /\ lastCall.outcome # "rolledback"
     /\ p_scrape # "failed"
     /\ saves = 0
     /\ p_pc \notin {"scrape", "scrape_await", "scrape_exit", "lookup"}) =>
        \E k \in 1..Len(db.products) :
            /\ db.products[k].url = p_url
            /\ db.products[k].name = lastCall.info.name
            /\ p_product_id = db.products[k].id

(***************************************************************************)
(* The scraper: src/scraper/oliveyoung_scraper_selenium.py.                *)
(*                                                                         *)
(* Rating texts are sequences of characters.  The characters of the       *)
(* Korean phrases are written in romanised form, one string per           *)
(* character: "jeom" 점, "man" 만, "e" 에, "joh" 좋, "a" 아, "yo" 요.          *)
(***************************************************************************)
\* the separator "점만점에"
Separator == <<"jeom", "man", "jeom", "e">>

\* str.find(sep) + 1: the 1-based position of the first occurrence, 0 if none
Find(s, sep) ==
    LET hits == {k \in 1..Len(s) :
                    /\ k + Len(sep) - 1 <= Len(s)
                    /\ SubSeq(s, k, k + Len(sep) - 1) = sep}
    IN  IF hits = {} THEN 0 ELSE CHOOSE k \in hits : \A h \in hits : k <= h

\* rating_text.split("점만점에")[1]: what stands between the first
\* separator and the next one (or the end of the text)
SecondPart(s) ==
    LET k == Find(s, Separator)
        rest == SubSeq(s, k + Len(Separator), Len(s))
        k2 == Find(rest, Separator)
    IN  IF k2 = 0 THEN rest ELSE SubSeq(rest, 1, k2 - 1)

\* parts[1] taken for parts[0]: the text before the separator
parse_rating_from_text_firstPart(rating_text) ==
    IF Find(rating_text, Separator) # 0
    THEN Strip(SelectSeq(SubSeq(rating_text, 1, Find(rating_text, Separator) - 1),
                         LAMBDA c : c # "jeom"))
    ELSE <<>>

\* _parse_rating_from_text on a str; the body is one try block whose except
\* clause returns "", so no exception leaves it.  len(parts) > 1 holds
\* whenever the separator is in the text.
parse_rating_from_text(rating_text) ==
    IF Find(rating_text, Separator) # 0 /\ Contains(rating_text, "jeom")
    THEN Strip(SelectSeq(SecondPart(rating_text), LAMBDA c : c # "jeom"))
    ELSE <<>>

(***************************************************************************)
(* SpecScrape: one call of OliveYoungScraperSelenium.scrape.  The page is  *)
(* the environment: every driver call either answers or raises, chosen    *)
(* at the step that makes the call.  The review pages of the product are   *)
(* given by the number of list items each page shows and by the positions  *)
(* of the items that lack their text or their rating element.              *)
(***************************************************************************)
MaxPages == 3       \* review pages of the product

PageSizes == {0, 2, 5}

RECURSIVE SeqsUpTo(_, _)
SeqsUpTo(S, n) ==
    IF n = 0 THEN {<<>>}
    ELSE LET shorter == SeqsUpTo(S, n - 1)
         IN  shorter \cup {Append(q, x) : q \in {r \in shorter : Len(r) = n - 1}, x \in S}

\* a page that yields no review ends the pagination, so only the last page
\* of a product is given as such a page
ReviewPages ==
    {q \in SeqsUpTo(PageSizes, MaxPages) : \A k \in 1..(Len(q) - 1) : q[k] # 0}

\* the max_reviews argument of scrape
MaxReviewsArgs == {0, 3, 10}

\* the rating graph of the review tab: whether div.graph_area shows up, and
\* for the ratings 5..1 the text of span.per (None: the span does not show
\* up and _get_text raises)
FullGraph == [area |-> TRUE, per |-> [r \in 1..5 |-> "20%"]]

RatingGraphs ==
    {FullGraph,
     [FullGraph EXCEPT !.per[3] = None],
     [FullGraph EXCEPT !.per[3] = ""],
     [area |-> TRUE, per |-> [r \in 1..5 |-> IF r = 5 THEN "100%" ELSE None]],
     [FullGraph EXCEPT !.area = FALSE]}

\* distribution = {}
NoDistribution == [r \in {} |-> ""]

\* _get_review_rating_distribution: rating -> percentage text, for the
\* ratings whose span.per was read with a text; {} when the graph area does
\* not show up
get_review_rating_distribution(graph) ==
    IF ~graph.area THEN NoDistribution
    ELSE [r \in {x \in 1..5 : graph.per[x] \notin {None, ""}} |-> graph.per[r]]

\* an except clause of _get_review_rating_distribution was entered: the wait
\* for the graph area or the read of a span.per raised
DistributionReadFails(graph) ==
    ~graph.area \/ \E r \in 1..5 : graph.per[r] = None

\* the list items of a page that lack div.txt_inner (photo reviews) or the
\* span of the rating, by their position in #gdasList
NoGaps == [no_text |-> {}, no_rating |-> {}]

GapPatterns ==
    {NoGaps,
     [no_text |-> {1}, no_rating |-> {3}],
     [no_text |-> {2}, no_rating |-> {1}]}

\* ProductInfo.__init__
ProductInfo ==
    [name |-> None, price |-> None, rating |-> None, review_count |-> None,
     detail_images |-> <<>>, review_rating_distribution |-> NoDistribution,
     reviews |-> <<>>, review_ratings |-> <<>>]

\* the fields read one after the other, then the images, then the reviews
FieldOrder == <<"name", "price", "rating", "review_count">>

\* max_wait = 120 and time.sleep(2), in seconds
MaxWait == 120
PollInterval == 2

\* the texts that show the bot check
Markers == {"jamsiman gidaryeo juseyo", "hwagin jung", "Checking your browser"}

\* what a poll of the document can find: the markers in the text of body,
\* or an exception of find_element or of .text
Bodies == (SUBSET Markers) \cup {{"exception"}}

InitScrape ==
    /\ scr \in [pc : {"start"},
                driver : BOOLEAN,             \* self.driver set by __enter__
                max_reviews : MaxReviewsArgs,
                pages : ReviewPages,
                product : {ProductInfo},      \* created at line 120
                all_reviews : {<<>>},         \* locals of the pagination
                all_ratings : {<<>>},
                page : {1},                   \* the review page shown
                visited : {0},                \* pages read by the pagination
                attempted : {<<>>},           \* phases entered, in order
                failed : {{}},                \* phases whose driver call raised
                raised : {"none"},            \* the exception that left scrape
                endless : {FALSE},            \* the last page has a next button
                control : {"none"},           \* the paging control clicked last
                elapsed : {0},                \* time.time() - start_time
                body : {{}},                  \* what the next poll finds
                gaps : {NoGaps}]              \* list items lacking an element
    /\ StoreIdle
    /\ ExtractIdle
    /\ PipeIdle
    /\ CallIdle

Range(q) == {q[k] : k \in 1..Len(q)}

\* a phase was entered and ended with or without a failure
Enter(s, phase, fails) ==
    [s EXCEPT !.attempted = Append(@, phase),
              !.failed = IF fails THEN @ \cup {phase} ELSE @]

\* if not self.driver: raise RuntimeError; self.driver.get(url)
Navigate ==
    /\ scr.pc = "start"
    /\ \/ /\ ~scr.driver
          /\ scr' = [scr EXCEPT !.pc = "raised", !.raised = "RuntimeError"]
       \/ /\ scr.driver
          /\ \E ok \in BOOLEAN :
                scr' \in IF ok
                         THEN {[Enter(scr, "navigate", FALSE) EXCEPT
                                   !.pc = "wait", !.body = b] : b \in Bodies}
                         ELSE { [Enter(scr, "navigate", TRUE) EXCEPT
                                !.pc = "raised", !.raised = "WebDriverException"]}
    /\ UNCHANGED <<storeVars, extractVars, pipeVars, callVars>>

\* the wait over: _wait_for_cloudflare returns None and its locals are gone
WaitOver(s) ==
    [Enter(s, "wait", FALSE) EXCEPT !.pc = "stabilize", !.elapsed = 0, !.body = {}]

\* a wait that gives up the scrape when the time is out
WaitForCloudflare_failsOnTimeout ==
    /\ scr.pc = "wait"
    /\ IF ~(scr.elapsed < MaxWait)
       THEN scr' = [WaitOver(scr) EXCEPT !.pc = "raised", !.raised = "TimeoutException"]
       ELSE IF scr.body \cap (Markers \cup {"exception"}) = {}
       THEN scr' = WaitOver(scr)
       ELSE \E b \in Bodies :
               scr' = [scr EXCEPT !.elapsed = @ + PollInterval, !.body = b]
    /\ UNCHANGED <<storeVars, extractVars, pipeVars, callVars>>

\* one test of the while condition of _wait_for_cloudflare and the round of
\* the loop that follows it: past max_wait the function logs the timeout and
\* returns; a body text without any marker makes it return; a text with a
\* marker, or an exception of the read (caught, logged at debug level), is
\* followed by time.sleep(2) and the next test
WaitForCloudflare ==
    /\ scr.pc = "wait"
    /\ IF ~(scr.elapsed < MaxWait)
       THEN scr' = WaitOver(scr)
       ELSE IF scr.body \cap (Markers \cup {"exception"}) = {}
       THEN scr' = WaitOver(scr)
       ELSE \E b \in Bodies :
               scr' = [scr EXCEPT !.elapsed = @ + PollInterval, !.body = b]
    /\ UNCHANGED <<storeVars, extractVars, pipeVars, callVars>>

\* the two execute_script("window.scrollTo...") calls stand outside any try
Stabilize ==
    /\ scr.pc = "stabilize"
    /\ \E ok \in BOOLEAN :
          scr' = IF ok THEN [Enter(scr, "stabilize", FALSE) EXCEPT !.pc = "name"]
                 ELSE [Enter(scr, "stabilize", TRUE) EXCEPT
                          !.pc = "raised", !.raised = "WebDriverException"]
    /\ UNCHANGED <<storeVars, extractVars, pipeVars, callVars>>

\* a field whose read raises ends the scrape
GetField_abortOnFailure(field, next) ==
    /\ scr.pc = field
    /\ \E ok \in BOOLEAN :
          scr' = IF ok
                 THEN [Enter(scr, field, FALSE) EXCEPT
                          !.pc = next, !.product[field] = "text"]
                 ELSE [Enter(scr, field, TRUE) EXCEPT !.pc = "return"]
    /\ UNCHANGED <<storeVars, extractVars, pipeVars, callVars>>

\* try: product.<field> = self._get_text(...)  except Exception: warning
GetField(field, next) ==
    /\ scr.pc = field
    /\ \E ok \in BOOLEAN :
          scr' = IF ok
                 THEN [Enter(scr, field, FALSE) EXCEPT
                          !.pc = next, !.product[field] = "text"]
                 ELSE [Enter(scr, field, TRUE) EXCEPT !.pc = next]
    /\ UNCHANGED <<storeVars, extractVars, pipeVars, callVars>>

GetName == GetField("name", "price")

\* _get_price catches what its reads raise and returns "" when neither the
\* discount price nor the regular price is found
GetPrice ==
    /\ scr.pc = "price"
    /\ \E ok \in BOOLEAN :
          scr' = [Enter(scr, "price", ~ok) EXCEPT
                     !.pc = "rating",
                     !.product.price = IF ok THEN "text" ELSE ""]
    /\ UNCHANGED <<storeVars, extractVars, pipeVars, callVars>>

GetRating == GetField("rating", "review_count")

GetReviewCount == GetField("review_count", "images")

\* try: product.detail_images = self._get_detail_images(): the scroll before
\* the toggle may raise (caught by scrape), a toggle that cannot be clicked
\* gives [], otherwise the images of the first selector pattern that has any
GetDetailImages ==
    /\ scr.pc = "images"
    /\ \E how \in {"found", "none_found", "toggle_failed", "raises"} :
          scr' = [Enter(scr, "images", how \in {"toggle_failed", "raises"}) EXCEPT
                     !.pc = "review_tab",
                     !.product.detail_images =
                         IF how = "found" THEN <<"a.jpg", "b.jpg">> ELSE <<>>]
    /\ UNCHANGED <<storeVars, extractVars, pipeVars, callVars>>

\* an exception of the review block leaves scrape
ReviewBlockFails_propagates(s, phase) ==
    [Enter(s, phase, TRUE) EXCEPT !.pc = "raised", !.raised = "WebDriverException"]

\* the statements of the review try block that are skipped when one of them
\* raises: scrape logs a warning and returns the product as it is
ReviewBlockFails(s, phase) ==
    [Enter(s, phase, TRUE) EXCEPT !.pc = "return"]

\* a helper that catches the failure of its click and then calls
\* save_screenshot inside the except clause: "ok", "caught" (screenshot
\* saved, the helper returns) or "uncaught" (save_screenshot raises too)
ClickWithScreenshot(phase, next) ==
    /\ scr.pc = phase
    /\ \E how \in {"ok", "caught", "uncaught"} :
          scr' = IF how = "uncaught" THEN ReviewBlockFails(scr, phase)
                 ELSE [Enter(scr, phase, how = "caught") EXCEPT !.pc = next]
    /\ UNCHANGED <<storeVars, extractVars, pipeVars, callVars>>

\* self._click_review_tab()
ClickReviewTab == ClickWithScreenshot("review_tab", "distribution")

\* the distribution read followed by the pagination, the sort left out
GetDistribution_skipsSort ==
    /\ scr.pc = "distribution"
    /\ \E graph \in RatingGraphs :
          scr' = [Enter(scr, "distribution", DistributionReadFails(graph)) EXCEPT
                     !.pc = "paginate",
                     !.product.review_rating_distribution =
                         get_review_rating_distribution(graph)]
    /\ UNCHANGED <<storeVars, extractVars, pipeVars, callVars>>

\* product.review_rating_distribution = self._get_review_rating_distribution():
\* every read is caught inside and the percentages read so far are returned
GetDistribution ==
    /\ scr.pc = "distribution"
    /\ \E graph \in RatingGraphs :
          scr' = [Enter(scr, "distribution", DistributionReadFails(graph)) EXCEPT
                     !.pc = "sort",
                     !.product.review_rating_distribution =
                         get_review_rating_distribution(graph)]
    /\ UNCHANGED <<storeVars, extractVars, pipeVars, callVars>>

\* self._sort_reviews_by_helpfulness()
SortReviews == ClickWithScreenshot("sort", "paginate")

\* the text span of the k-th review of a page: "5점만점에 5점" or "5점만점에 4점"
RatingTextOf(k) ==
    <<"5">> \o Separator \o <<" ", IF k % 2 = 1 THEN "5" ELSE "4", "jeom">>

\* rating = self._parse_rating_from_text(rating_text), for the reviews of the
\* longest page
PageRatings ==
    [k \in 1..(CHOOSE m \in PageSizes : \A n \in PageSizes : n <= m) |->
        parse_rating_from_text(RatingTextOf(k))]

\* both _get_text calls of item k answered: _get_text raises when its
\* element does not show up, and the except clause of the item logs and
\* goes on with the next item
ItemRead(gaps, k) == k \notin gaps.no_text /\ k \notin gaps.no_rating

\* the text appended as soon as it is read, before the rating is looked up
ReviewAppended_beforeRating(gaps, k) == k \notin gaps.no_text

\* reviews_on_page.append(text) is reached for item k
ReviewAppended(gaps, k) == ItemRead(gaps, k)

\* ratings_on_page.append(rating) is reached for item k
RatingAppended(gaps, k) == ItemRead(gaps, k)

\* _extract_reviews_from_page on page p: the texts (item k of page p has
\* the text <<p, k>>) and the parsed ratings of its items, in the order of
\* the list; [] when the list does not show up
ExtractReviewsFromPage(pages, p, gaps) ==
    IF p > Len(pages) THEN [reviews |-> <<>>, ratings |-> <<>>]
    ELSE LET li == [k \in 1..pages[p] |-> k]
             with_text == SelectSeq(li, LAMBDA k : ReviewAppended(gaps, k))
             with_rating == SelectSeq(li, LAMBDA k : RatingAppended(gaps, k))
         IN  [reviews |-> [j \in 1..Len(with_text) |-> <<p, with_text[j]>>],
              ratings |-> [j \in 1..Len(with_rating) |->
                              PageRatings[with_rating[j]]]]

\* the loop over zip(reviews_on_page, ratings_on_page), without its guard
TakeFromPage_noCap(have, page, max_reviews) == have \o page

\* for review, rating in zip(...): append while len(all_reviews) < max_reviews
TakeFromPage(have, page, max_reviews) ==
    have \o SubSeq(page, 1, Min(Len(page), max_reviews - Len(have)))

\* if current_page_num % 10 == 0: the page numbers are shown in blocks of 10
BlockSize == 10

\* the paging container of page s.page: "strong + a" is the link behind the
\* active page number and leads to the page that follows, "a.next" leads to
\* the first page of the next block of page numbers; 0 when the selector
\* finds no element (NoSuchElementException).  A chain that never ends
\* shows its pages again from the first.
ControlTarget(s, selector) ==
    LET block_end == ((s.page + BlockSize - 1) \div BlockSize) * BlockSize
    IN  IF selector = "strong + a"
        THEN IF s.page < Len(s.pages) THEN s.page + 1
             ELSE IF s.endless THEN 1 ELSE 0
        ELSE IF block_end < Len(s.pages) THEN block_end + 1
             ELSE IF s.endless THEN 1 ELSE 0

\* the link behind the active page number on every page
UsedControl_alwaysSibling(s) == "strong + a"

\* the selector of the next button: a.next on the last page of a block,
\* strong + a on the others
UsedControl(s) ==
    IF s.page % BlockSize = 0 THEN "a.next" ELSE "strong + a"

\* a site without any next-page control
NextControlExists_never(s) == FALSE

\* the next-page control of the page shown; on a site whose chain of pages
\* never ends the last page of `pages` has one too
NextControlExists(s) == ControlTarget(s, UsedControl(s)) # 0

\* the page the control leads to
NextPage(s) == ControlTarget(s, UsedControl(s))

\* a loop that goes on after a page without reviews
PageEndsLoop_never(reviews_on_page) == FALSE

\* if not reviews_on_page: break
PageEndsLoop(reviews_on_page) == reviews_on_page = <<>>

\* one round of the while loop of _paginate_and_extract_reviews, the exits of
\* the loop included; leaving the loop returns the two lists to scrape, which
\* stores them in the product
PaginateRound ==
    /\ scr.pc = "paginate"
    /\ \E got \in {ExtractReviewsFromPage(scr.pages, scr.page, scr.gaps)} :
       \E revs \in {TakeFromPage(scr.all_reviews, got.reviews, scr.max_reviews)} :
       \E rats \in {TakeFromPage(scr.all_ratings, got.ratings, scr.max_reviews)} :
       \E read \in {[Enter(scr, "paginate", FALSE) EXCEPT !.visited = @ + 1]} :
       \E kept \in {[read EXCEPT !.all_reviews = revs, !.all_ratings = rats]} :
          LET done(s) == [s EXCEPT !.pc = "return",
                                   !.product.reviews = s.all_reviews,
                                   !.product.review_ratings = s.all_ratings]
          IN  IF ~(Len(scr.all_reviews) < scr.max_reviews)
              THEN scr' = done(Enter(scr, "paginate", FALSE))
              ELSE IF PageEndsLoop(got.reviews)
              THEN scr' = done(read)
              ELSE IF Len(revs) >= scr.max_reviews
              THEN scr' = done(kept)
              ELSE \E nav \in {"raises", "find"} :
                      scr' = IF nav = "raises"
                             THEN done([kept EXCEPT !.failed = @ \cup {"paginate"}])
                             ELSE IF ~NextControlExists(scr)
                             THEN done(kept)
                             ELSE [kept EXCEPT !.page = NextPage(scr),
                                               !.control = UsedControl(scr)]
    /\ UNCHANGED <<storeVars, extractVars, pipeVars, callVars>>

\* return product
ScrapeReturn ==
    /\ scr.pc = "return"
    /\ scr' = [scr EXCEPT !.pc = "returned"]
    /\ UNCHANGED <<storeVars, extractVars, pipeVars, callVars>>

NextScrape ==
    \/ Navigate \/ WaitForCloudflare \/ Stabilize
    \/ GetName \/ GetPrice \/ GetRating \/ GetReviewCount \/ GetDetailImages
    \/ ClickReviewTab \/ GetDistribution \/ SortReviews \/ PaginateRound
    \/ ScrapeReturn

SpecScrape == InitScrape /\ [][NextScrape]_vars

\* scrape has returned its product
ScrapeReturned == scr.pc = "returned"

\* the phases of `names` in the order in which the run entered them
EnteredAmong(names) == SelectSeq(scr.attempted, LAMBDA ph : ph \in names)

FieldNames == {FieldOrder[k] : k \in 1..Len(FieldOrder)}

\* C15: whatever subset of name, price, rating and review_count fails, a
\* scrape that got past the page set-up leaves each failing field empty,
\* reads every field once in the fixed order, and still enters the image
\* discovery and the review collection after them.
C15_FieldFailuresIsolated ==
    ScrapeReturned =>
        /\ EnteredAmong(FieldNames \cup {"images", "review_tab"})
              = FieldOrder \o <<"images", "review_tab">>
        /\ \A f \in FieldNames :
              IF f \in scr.failed THEN scr.product[f] \in {None, ""}
              ELSE scr.product[f] = "text"

\* name and rating failed, price and review_count were read, and the images
\* and the reviews were collected all the same
C15_Witness ==
    /\ ScrapeReturned
    /\ scr.failed \cap FieldNames = {"name", "rating"}
    /\ scr.product.price = "text"
    /\ scr.product.review_count = "text"
    /\ scr.product.detail_images # <<>>
    /\ scr.product.reviews # <<>>

ReviewPhases == {"review_tab", "distribution", "sort", "paginate"}

\* the reviews of the first n pages, one after the other
RECURSIVE ReviewsOfPages(_, _, _)
ReviewsOfPages(pages, n, gaps) ==
    IF n = 0 THEN <<>>
    ELSE ReviewsOfPages(pages, n - 1, gaps)
            \o ExtractReviewsFromPage(pages, n, gaps).reviews

\* the first cap reviews of the first n pages
FirstReviews(pages, n, cap, gaps) ==
    LET every == ReviewsOfPages(pages, n, gaps)
    IN  SubSeq(every, 1, Min(Len(every), cap))

\* the fields and the images, which the review block does not touch
FieldsAndImages(s) ==
    <<s.product.name, s.product.price, s.product.rating,
      s.product.review_count, s.product.detail_images>>

\* C16 as stated: when the review tab, the distribution, the sort or a page
\* advancement failed, the returned product holds exactly the reviews
\* collected up to the failure: none for the three steps that precede the
\* collection, the ones gathered so far for a page advancement.
C16_AsStated ==
    ScrapeReturned =>
        /\ scr.failed \cap {"review_tab", "distribution", "sort"} # {} =>
              scr.product.reviews = <<>>
        /\ "paginate" \in scr.failed =>
              scr.product.reviews = scr.all_reviews

\* C16, amended: a failure of the review tab, the distribution or the sort
\* does not end the review block unless the failure handler of the step
\* fails too; no failure of the review block leaves scrape as an exception;
\* the returned product holds the capped reviews of the pages read (none
\* when the block was left before the collection, the k collected so far
\* when a page advancement failed) with one rating per review, and the
\* fields and images read earlier are untouched.
C16_ReviewFailuresContained ==
    /\ [](/\ scr.pc = "raised" => "review_tab" \notin Range(scr.attempted)
          /\ (ScrapeReturned /\ scr.failed \cap ReviewPhases # {}) =>
                /\ scr.product.reviews
                      = FirstReviews(scr.pages, scr.visited, scr.max_reviews, scr.gaps)
                /\ Len(scr.product.review_ratings) = Len(scr.product.reviews)
                /\ "paginate" \notin Range(scr.attempted) =>
                      scr.product.reviews = <<>>)
    /\ [][scr.pc \in ReviewPhases \cup {"return"} =>
             FieldsAndImages(scr') = FieldsAndImages(scr)]_vars

\* the sort failed and was logged, two pages gave 4 reviews, the next page
\* advancement raised: the product holds the 4 reviews, the fields and the
\* images
C16_Witness ==
    /\ ScrapeReturned
    /\ {"sort", "paginate"} \subseteq scr.failed
    /\ scr.visited = 2
    /\ Len(scr.product.reviews) = 4
    /\ Len(scr.product.review_ratings) = 4
    /\ scr.product.name = "text"
    /\ scr.product.detail_images # <<>>

\* C17 as stated: an exception leaves scrape only from the navigation (or the
\* driver check before it); once the page is loaded no failure of the
\* bot-check wait, the stabilising scrolls, a field, the images or the
\* reviews propagates.
C17_RaisesOnlyOnNavigation ==
    scr.pc = "raised" => Range(scr.attempted) \subseteq {"navigate"}

\* the pagination ran to its return without a failed page advancement
PaginationReturned ==
    /\ scr.pc \in {"return", "returned"}
    /\ "paginate" \in Range(scr.attempted)

\* C18: the pagination never holds more than max_reviews reviews, reads no
\* page once the total has reached max_reviews, and with pages of 5 reviews
\* and max_reviews = 10 returns exactly 10 reviews from at most 2 pages.
C18_PaginationCapped ==
    /\ [](/\ Len(scr.all_reviews) <= scr.max_reviews
          /\ Len(scr.all_ratings) = Len(scr.all_reviews)
          /\ PaginationReturned =>
                /\ scr.product.reviews = scr.all_reviews
                /\ Len(scr.product.reviews) <= scr.max_reviews
          /\ (/\ PaginationReturned
              /\ "paginate" \notin scr.failed
              /\ scr.max_reviews = 10
              /\ Len(scr.pages) >= 2
              /\ \A p \in 1..Len(scr.pages) : scr.pages[p] = 5) =>
                /\ Len(scr.product.reviews) = 10
                /\ scr.visited <= 2)
    /\ [][Len(scr.all_reviews) >= scr.max_reviews =>
             scr'.visited = scr.visited]_vars

\* three pages of 5 reviews and max_reviews = 10: the product holds the 10
\* reviews of the first two pages and the third page was not read
C18_Witness ==
    /\ PaginationReturned
    /\ scr.pages = <<5, 5, 5>>
    /\ scr.max_reviews = 10
    /\ Len(scr.product.reviews) = 10
    /\ scr.visited = 2

(***************************************************************************)
(* Calls of _parse_rating_from_text on texts put together from the pieces  *)
(* a rating span is made of.                                               *)
(***************************************************************************)
MaxSegments == 5    \* pieces of a rating text

Segments == {Separator, <<"jeom">>, <<" ">>, <<"4">>, <<"5">>, <<"joh", "a", "yo">>}

RECURSIVE Flatten(_)
Flatten(q) == IF q = <<>> THEN <<>> ELSE Head(q) \o Flatten(Tail(q))

RatingTexts == {Flatten(q) : q \in SeqsUpTo(Segments, MaxSegments)}

ParseCalls ==
    [op : {"parse_rating_from_text"}, state : {"pending"},
     rating_text : RatingTexts]

\* rating = self._parse_rating_from_text(rating_text)
ApplyParseRating ==
    /\ call.op = "parse_rating_from_text"
    /\ call.state = "pending"
    /\ call' = [op |-> call.op, state |-> "returned", args |-> call,
                result |-> parse_rating_from_text(call.rating_text)]
    /\ UNCHANGED <<storeVars, extractVars, pipeVars, scrapeVars>>

Digits == {"4", "5"}

\* C19: _parse_rating_from_text gives "" for a text without the separator
\* ("좋아요" gives ""), and for a text whose separator is followed by blanks,
\* a value and a closing 점 it gives the value ("5점만점에 4점" gives "4");
\* what it gives never holds a 점 nor a blank at either end.
C19_ParseRating ==
    Returned("parse_rating_from_text") =>
        LET t == call.args.rating_text
            r == call.result
            k == Find(t, Separator)
            tail == SubSeq(t, k + Len(Separator), Len(t))
            value == Strip(SubSeq(tail, 1, Len(tail) - 1))
        IN  /\ k = 0 => r = <<>>
            /\ t = <<"joh", "a", "yo">> => r = <<>>
            /\ t = <<"5", "jeom", "man", "jeom", "e", " ", "4", "jeom">> => r = <<"4">>
            /\ (/\ k # 0
                /\ tail # <<>>
                /\ tail[Len(tail)] = "jeom"
                /\ value # <<>>
                /\ \A j \in 1..Len(value) : value[j] \in Digits) => r = value
            /\ ~Contains(r, "jeom")
            /\ r # <<>> => (r[1] # " " /\ r[Len(r)] # " ")

\* "5점만점에 4점" was parsed to "4"
C19_Witness ==
    /\ Returned("parse_rating_from_text")
    /\ call.args.rating_text = <<"5", "jeom", "man", "jeom", "e", " ", "4", "jeom">>
    /\ call.result = <<"4">>

(***************************************************************************)
(* Calls of database.get_product_reviews_by_rating on a product_reviews    *)
(* table put together from the rows below.                                 *)
(***************************************************************************)
MaxRows == 3        \* rows of product_reviews

ReviewRowSamples ==
    {[product_id |-> 1, review_text |-> "good", review_rating |-> "5"],
     [product_id |-> 1, review_text |-> "good", review_rating |-> "1"],
     [product_id |-> 1, review_text |-> "bad", review_rating |-> "4"],
     [product_id |-> 1, review_text |-> "bad", review_rating |-> "3"],
     [product_id |-> 1, review_text |-> "bad", review_rating |-> "2"],
     [product_id |-> 1, review_text |-> "odd", review_rating |-> "abc"],
     [product_id |-> 1, review_text |-> "odd", review_rating |-> ""],
     [product_id |-> 1, review_text |-> "odd", review_rating |-> None],
     [product_id |-> 1, review_text |-> None, review_rating |-> "5"],
     [product_id |-> 2, review_text |-> "good", review_rating |-> "5"]}

\* the review_rating strings in the order of ORDER BY review_rating DESC
\* (TEXT comparison)
RatingsDesc == <<"abc", "5", "4", "3", "2", "1", "">>

\* SELECT review_text, review_rating ... WHERE product_id = ? AND review_text
\* IS NOT NULL AND review_rating IS NOT NULL ORDER BY review_rating DESC;
\* rows of equal rating are taken in rowid order
RECURSIVE SelectReviewsDesc(_, _, _)
SelectReviewsDesc(rows, product_id, k) ==
    IF k > Len(RatingsDesc) THEN <<>>
    ELSE SelectSeq(rows, LAMBDA r : /\ r.product_id = product_id
                                    /\ r.review_text # None
                                    /\ r.review_rating = RatingsDesc[k])
            \o SelectReviewsDesc(rows, product_id, k + 1)

\* rating '3' taken for a negative one
GroupOf_threeNegative(rating) ==
    CASE rating = "5" -> "positive_5"
      [] rating = "4" -> "neutral_4_3"
      [] rating \in {"3", "2", "1"} -> "negative_2_1"
      [] OTHER -> "none"

\* if rating == '5' / elif rating in ['4', '3'] / elif rating in ['2', '1']
GroupOf(rating) ==
    CASE rating = "5" -> "positive_5"
      [] rating \in {"4", "3"} -> "neutral_4_3"
      [] rating \in {"2", "1"} -> "negative_2_1"
      [] OTHER -> "none"

TextsOf(rows) == [k \in 1..Len(rows) |-> rows[k].review_text]

Groups == {"positive_5", "neutral_4_3", "negative_2_1"}

\* get_product_reviews_by_rating; fault: connecting or the query raises and
\* the except clause returns the three empty lists
get_product_reviews_by_rating(rows, product_id, fault) ==
    IF fault THEN [g \in Groups |-> <<>>]
    ELSE LET fetched == SelectReviewsDesc(rows, product_id, 1)
         IN  [g \in Groups |->
                 TextsOf(SelectSeq(fetched, LAMBDA r : GroupOf(r.review_rating) = g))]

ReviewsByRatingCalls ==
    [op : {"get_product_reviews_by_rating"}, state : {"pending"},
     rows : SeqsUpTo(ReviewRowSamples, MaxRows), product_id : {1, 2},
     fault : BOOLEAN]

\* classified_reviews = get_product_reviews_by_rating(product_id)
ApplyReviewsByRating ==
    /\ call.op = "get_product_reviews_by_rating"
    /\ call.state = "pending"
    /\ call' = [op |-> call.op, state |-> "returned", args |-> call,
                result |-> get_product_reviews_by_rating(call.rows, call.product_id,
                                                         call.fault)]
    /\ UNCHANGED <<storeVars, extractVars, pipeVars, scrapeVars>>

\* how often text x stands in the list q
Occurrences(q, x) == Cardinality({k \in 1..Len(q) : q[k] = x})

\* C20: when the query succeeds, every review of the product that has a text
\* stands in positive_5 if its rating is '5', in neutral_4_3 if it is '4' or
\* '3', in negative_2_1 if it is '2' or '1', once and in that group only;
\* reviews with another, an empty or no rating stand in no group.  Counted
\* per text: a group holds a text as often as the product has reviews with
\* that text and a rating of the group.
C20_ReviewsPartitioned ==
    (Returned("get_product_reviews_by_rating") /\ ~call.args.fault) =>
        LET rows == call.args.rows
            mine(k) == /\ rows[k].product_id = call.args.product_id
                       /\ rows[k].review_text # None
            ratings(g) == CASE g = "positive_5" -> {"5"}
                            [] g = "neutral_4_3" -> {"4", "3"}
                            [] g = "negative_2_1" -> {"2", "1"}
        IN  /\ DOMAIN call.result = Groups
            /\ \A g \in Groups : \A x \in {"good", "bad", "odd"} :
                  Occurrences(call.result[g], x)
                     = Cardinality({k \in 1..Len(rows) :
                                       /\ mine(k)
                                       /\ rows[k].review_text = x
                                       /\ rows[k].review_rating \in ratings(g)})
            /\ \A g \in Groups : \A k \in 1..Len(call.result[g]) :
                  call.result[g][k] \in {"good", "bad", "odd"}

\* a '5', a '3' and an unrated review of product 1: one in positive_5, one in
\* neutral_4_3, none in negative_2_1
C20_Witness ==
    /\ Returned("get_product_reviews_by_rating")
    /\ ~call.args.fault
    /\ call.args.product_id = 1
    /\ call.args.rows =
          <<[product_id |-> 1, review_text |-> "odd", review_rating |-> ""],
            [product_id |-> 1, review_text |-> "bad", review_rating |-> "3"],
            [product_id |-> 1, review_text |-> "good", review_rating |-> "5"]>>
    /\ call.result = [positive_5 |-> <<"good">>, neutral_4_3 |-> <<"bad">>,
                      negative_2_1 |-> <<>>]

(***************************************************************************)
(* Responses of the Reasoning Service that are to hold JSON.  A response   *)
(* is a sequence of pieces: "fence_json" the opening fence ```json,         *)
(* "fence" the closing fence ```, " " a run of whitespace, "{" and "}"     *)
(* braces, "body" the members of an object (for                            *)
(* the contradiction analysis: a "contradictions" list with one finding),  *)
(* "text" prose.  <<"{", "body", "}">> and <<"{", "}">> are the JSON       *)
(* objects that can be written with these pieces.                          *)
(***************************************************************************)
MaxParts == 3       \* parts a response is put together from

ResponseParts ==
    {<<"fence_json", " ">>, <<" ", "fence">>, <<"{", "body", "}">>,
     <<"{">>, <<"}">>, <<"text">>}

Responses == {Strip(Flatten(q)) : q \in SeqsUpTo(ResponseParts, MaxParts)}

\* the response with its JSON inside a fenced code block
Fenced(json) == <<"fence_json", " ">> \o json \o <<" ", "fence">>

\* json.loads(s): the object, or JSONDecodeError; whitespace around the
\* value is allowed
JsonLoads(s) ==
    IF Strip(s) \in {<<"{", "body", "}">>, <<"{", "}">>}
    THEN [ok |-> TRUE, value |-> Strip(s)]
    ELSE [ok |-> FALSE, value |-> <<>>]

\* s.find(sub, from) + 1 for a substring that occurs in the pieces `within`
\* of the response: the first position >= from, 0 if none
FindFrom(s, within, from) ==
    LET hits == {k \in from..Len(s) : s[k] \in within}
    IN  IF hits = {} THEN 0 ELSE CHOOSE k \in hits : \A h \in hits : k <= h

\* s.rfind(piece) + 1
RFind(s, piece) ==
    LET hits == {k \in 1..Len(s) : s[k] = piece}
    IN  IF hits = {} THEN 0 ELSE CHOOSE k \in hits : \A h \in hits : k >= h

\* the three tiers of _process_single_chunk and
\* _analyze_claims_vs_reality_with_ai: json.loads of the response; else of
\* what stands between "fence_json" and the next "fence"; else of what stands
\* between the first "{" and the last "}".  A JSONDecodeError in the second
\* or third tier ends the recovery.
RecoverJson(result) ==
    LET direct == JsonLoads(result)
        open == FindFrom(result, {"fence_json"}, 1)
        close == FindFrom(result, {"fence", "fence_json"}, open + 1)
        first == FindFrom(result, {"{"}, 1)
        last == RFind(result, "}")
    IN  IF direct.ok THEN direct
        ELSE IF open # 0 /\ close # 0
        THEN JsonLoads(SubSeq(result, open + 1, close - 1))
        ELSE IF first # 0 /\ last > first - 1
        THEN JsonLoads(SubSeq(result, first, last))
        ELSE [ok |-> FALSE, value |-> <<>>]

Consumers == {"chunk", "contradictions", "claims"}

\* what a consumer makes of the response: the parsed object or its
\* default.  _analyze_contradictions_with_ai tries json.loads only and takes
\* the "contradictions" member.
ParseResponse(consumer, result) ==
    CASE consumer = "contradictions" ->
            LET parsed == JsonLoads(result)
            IN  IF parsed.ok /\ Contains(parsed.value, "body")
                THEN <<"finding">> ELSE <<>>
      [] consumer = "chunk" ->
            LET parsed == RecoverJson(result)
            IN  IF parsed.ok THEN parsed.value ELSE <<"default_chunk">>
      [] consumer = "claims" ->
            LET parsed == RecoverJson(result)
            IN  IF parsed.ok THEN parsed.value ELSE <<"default_claims">>

ParseResponseCalls ==
    [op : {"parse_response"}, state : {"pending"},
     consumer : Consumers, response : Responses]

\* result = response.choices[0].message.content.strip() and its parsing
ApplyParseResponse ==
    /\ call.op = "parse_response"
    /\ call.state = "pending"
    /\ call' = [op |-> call.op, state |-> "returned", args |-> call,
                result |-> ParseResponse(call.consumer, call.response)]
    /\ UNCHANGED <<storeVars, extractVars, pipeVars, scrapeVars>>

\* C21 as stated: for every consumer, a response that is a JSON object inside
\* a fenced code block is parsed to what the object sent bare is parsed to.
C21_FencedParsedAlike ==
    Returned("parse_response") =>
        \A json \in {<<"{", "body", "}">>, <<"{", "}">>} :
            call.args.response = Fenced(json) =>
                call.result = ParseResponse(call.args.consumer, json)

\* C22 as stated: whenever evaluate_product computes scores (the total weight
\* is above 0), the weighted average lies in [1, 5] (20 to 100 on the scale
\* of 100) and the final score lies in [0, 100].
C22_ScoresInRange ==
    (Returned("evaluate_product") /\ call.result.kind = "scores") =>
        /\ call.result.weighted_num >= 20 * call.result.den
        /\ call.result.weighted_num <= 100 * call.result.den
        /\ call.result.final_num >= 0
        /\ call.result.final_num <= 100 * call.result.den

\* calls of calculate_weighted_score; fault: the query of
\* get_product_review_ratings raises, which that function answers with []
WeightedScoreCalls ==
    [op : {"calculate_weighted_score"}, state : {"pending"},
     cnt : RatingCounts, fault : BOOLEAN]

\* weighted_score, calculation_details = self.calculate_weighted_score(product_id)
ApplyWeightedScore ==
    /\ call.op = "calculate_weighted_score"
    /\ call.state = "pending"
    /\ call' = [op |-> call.op, state |-> "returned", args |-> call,
                result |-> calculate_weighted_score(
                               IF call.fault THEN <<>> ELSE RatingRows(call.cnt))]
    /\ UNCHANGED <<storeVars, extractVars, pipeVars, scrapeVars>>

\* C23: for a product without a review whose rating parses as a number (no
\* rating rows at all, or only unparsable ratings) calculate_weighted_score
\* returns 0 and an error marker; it returns in every case.
C23_NoUsableRatingGivesError ==
    Returned("calculate_weighted_score") =>
        /\ call.result.error \in {"none", "no_reviews", "weight_sum_zero"}
        /\ (\/ call.args.fault
            \/ \A r \in DOMAIN call.args.cnt :
                  call.args.cnt[r] > 0 => IntOf(r) = -1) =>
              /\ call.result.num = 0
              /\ call.result.error # "none"

\* the product has reviews, all with a rating that is no number
C23_Witness ==
    /\ Returned("calculate_weighted_score")
    /\ ~call.args.fault
    /\ call.args.cnt["abc"] > 0
    /\ \A r \in DOMAIN call.args.cnt : r # "abc" => call.args.cnt[r] = 0
    /\ call.result.num = 0
    /\ call.result.error = "weight_sum_zero"

MaxFindings == 4    \* findings in one list of contradictions

Severities == {"high", "medium", "low", "unknown"}

\* calls of _calculate_penalty_score; a finding is given by its severity
PenaltyCalls ==
    [op : {"calculate_penalty_score"}, state : {"pending"},
     contradictions : SeqsUpTo(Severities, MaxFindings)]

\* penalty_score = self._calculate_penalty_score(contradictions)
ApplyPenaltyScore ==
    /\ call.op = "calculate_penalty_score"
    /\ call.state = "pending"
    /\ call' = [op |-> call.op, state |-> "returned", args |-> call,
                result |-> calculate_penalty_score(call.contradictions)]
    /\ UNCHANGED <<storeVars, extractVars, pipeVars, scrapeVars>>

\* C24: the penalty is min(50, 16 per high + 8 per medium + 4 per low
\* finding); it never exceeds 50, adding a finding never lowers it, and four
\* high findings give exactly 50.
C24_PenaltyCappedMonotone ==
    Returned("calculate_penalty_score") =>
        LET found == call.args.contradictions
            total == 16 * Occurrences(found, "high")
                     + 8 * Occurrences(found, "medium")
                     + 4 * Occurrences(found, "low")
        IN  /\ "unknown" \notin Range(found) => call.result = Min(50, total)
            /\ call.result <= 50
            /\ \A s \in Severities :
                  calculate_penalty_score(Append(found, s)) >= call.result
            /\ found = <<"high", "high", "high", "high">> => call.result = 50

\* four high findings: 64 capped to 50
C24_Witness ==
    /\ Returned("calculate_penalty_score")
    /\ call.args.contradictions = <<"high", "high", "high", "high">>
    /\ call.result = 50

\* C25 as stated: the final score returned, and stored when the row is
\* written, is max(0, 20 x weighted_avg - penalty) with weighted_avg the sum
\* of r*c(r)*w(r) over the sum of c(r)*w(r) for the ratings r in 1..5 and the
\* weights 1.0, 0.8, 0.6, 2.0, 2.0; the stored weighted score is
\* 20 x weighted_avg.  (N / D is weighted_avg; weights in tenths.)
C25_FinalScoreFormula ==
    (Returned("evaluate_product") /\ call.result.kind = "scores") =>
        LET c == call.args.cnt
            w10 == [r \in 1..5 |-> CASE r = 5 -> 10 [] r = 4 -> 8 [] r = 3 -> 6
                                     [] OTHER -> 20]
            cOf == <<c["1"], c["2"], c["3"], c["4"], c["5"]>>
            N == cOf[1] * w10[1] + 2 * cOf[2] * w10[2] + 3 * cOf[3] * w10[3]
                 + 4 * cOf[4] * w10[4] + 5 * cOf[5] * w10[5]
            D == cOf[1] * w10[1] + cOf[2] * w10[2] + cOf[3] * w10[3]
                 + cOf[4] * w10[4] + cOf[5] * w10[5]
            penalty == call.result.penalty_score
            res == call.result
        IN  /\ D > 0
            /\ res.weighted_num * D = 20 * N * res.den
            /\ res.final_num * D
                  = (IF 20 * N - penalty * D < 0 THEN 0 ELSE 20 * N - penalty * D)
                    * res.den
            /\ res.stored.saved =>
                  /\ res.stored.final_score = <<res.final_num, res.den>>
                  /\ res.stored.weighted_score = <<res.weighted_num, res.den>>

MaxScoreTenths == 1000    \* scores 0.0 .. 100.0 in steps of 0.1

\* calls of _get_evaluation_grade on the score num / 10
GradeCalls ==
    [op : {"get_evaluation_grade"}, state : {"pending"}, num : 0..MaxScoreTenths]

\* "evaluation_grade": self._get_evaluation_grade(final_score_100)
ApplyEvaluationGrade ==
    /\ call.op = "get_evaluation_grade"
    /\ call.state = "pending"
    /\ call' = [op |-> call.op, state |-> "returned", args |-> call,
                result |-> get_evaluation_grade(call.num, 10)]
    /\ UNCHANGED <<storeVars, extractVars, pipeVars, scrapeVars>>

\* C26: the grade is one of seven, ordered D < C < C+ < B < B+ < A < A+, with
\* the bands cut at 40, 50, 60, 70, 80 and 90; the next higher score never
\* has a lower grade, scores from 90 up have the top grade and scores below
\* 40 the lowest.
C26_GradesOrdered ==
    Returned("get_evaluation_grade") =>
        LET order == <<"D", "C", "C+", "B", "B+", "A", "A+">>
            rank(g) == CHOOSE k \in 1..7 : order[k] = g
            s == call.args.num
            cuts == {k \in {400, 500, 600, 700, 800, 900} : s >= k}
        IN  /\ call.result \in Range(order)
            /\ rank(call.result) = 1 + Cardinality(cuts)
            /\ rank(get_evaluation_grade(s + 1, 10)) >= rank(call.result)
            /\ call.result = "A+" <=> s >= 900
            /\ call.result = "D" <=> s < 400

\* 69.9 is graded B, the band below B+
C26_Witness ==
    /\ Returned("get_evaluation_grade")
    /\ call.args.num = 699
    /\ call.result = "B"

\* the phases of scrape in the order of its statements
PhaseOrder ==
    <<"navigate", "wait", "stabilize", "name", "price", "rating",
      "review_count", "images", "review_tab", "distribution", "sort",
      "paginate">>

\* the phases entered so far are the first phases of PhaseOrder, each once,
\* followed by further rounds of the pagination only
InPhaseOrder ==
    \A k \in 1..Len(scr.attempted) :
        scr.attempted[k] = PhaseOrder[Min(k, Len(PhaseOrder))]

\* C27 as stated: the phases occur in the fixed order and no review is read
\* unless the "most helpful" sort has been applied before.
C27_AsStated ==
    /\ InPhaseOrder
    /\ scr.visited > 0 =>
          /\ "sort" \in Range(scr.attempted)
          /\ "sort" \notin scr.failed

\* C27, amended: the phases occur in the fixed order page load, bot-check
\* wait, stabilize, name, price, rating, review_count, images, review tab,
\* distribution, sort, pagination, return; a returned run went through all of
\* them up to the review tab; no page of reviews is read before the sort
\* step has been taken (its click may have failed and been logged, the
\* reviews are then read in the order the page shows them).
C27_PhaseOrder ==
    /\ InPhaseOrder
    /\ ScrapeReturned => Len(scr.attempted) >= 9
    /\ scr.visited > 0 => "sort" \in Range(scr.attempted)

\* a run through every phase in order, the sort applied, two pages read
C27_Witness ==
    /\ ScrapeReturned
    /\ scr.failed = {}
    /\ scr.attempted = PhaseOrder \o <<"paginate">>
    /\ scr.visited = 2
    /\ scr.product.reviews # <<>>

(***************************************************************************)
(* SpecWait: the page load and the bot-check wait of scrape.  The thread   *)
(* that runs scrape goes on running: find_element returns or raises and    *)
(* time.sleep(2) returns, so the next test of the loop is always taken.    *)
(***************************************************************************)
NextWait == Navigate \/ WaitForCloudflare

\* the wait reads neither max_reviews nor the review pages: one call of
\* scrape with or without a driver
InitWait == InitScrape /\ scr.max_reviews = 10 /\ scr.pages = <<5>>

SpecWait == InitWait /\ [][NextWait]_vars /\ WF_vars(WaitForCloudflare)

\* the poll about to be made finds no marker and no exception
BodyClear == scr.body \cap (Markers \cup {"exception"}) = {}

\* C28: the bot-check wait always ends and hands over to the stabilising
\* scrolls: it ends at the first poll that finds no marker, goes on polling
\* 2 seconds later after a marker or a swallowed exception, and ends without
\* failing the scrape once 120 seconds have passed.
C28_WaitEnds ==
    /\ [][scr.pc = "wait" =>
             /\ scr'.pc \in {"wait", "stabilize"}
             /\ scr'.raised = "none"
             /\ scr'.pc = "stabilize" <=> (BodyClear \/ scr.elapsed >= MaxWait)
             /\ scr'.pc = "wait" =>
                   /\ scr'.elapsed = scr.elapsed + PollInterval
                   /\ scr'.attempted = scr.attempted
                   /\ scr'.failed = scr.failed]_vars
    /\ (scr.pc = "wait") ~> (scr.pc = "stabilize")

\* the polls found a marker or raised for 120 seconds and the last of them
\* raised: the timeout is about to end the wait
C28_Witness ==
    /\ scr.pc = "wait"
    /\ scr.elapsed = MaxWait
    /\ scr.body = {"exception"}

(***************************************************************************)
(* SpecPaginate: _paginate_and_extract_reviews from its call by scrape,    *)
(* over every sequence of pages (a page with no review text may stand      *)
(* anywhere) and over chains of pages that never end.  The scraping thread *)
(* keeps running, so a round of the loop that can be taken is taken.       *)
(***************************************************************************)
\* the pages of one block of page numbers and the first page of the next
\* block, two reviews on each
LongChain == [k \in 1..(BlockSize + 1) |-> 2]

\* scrape has gone through every step before the pagination without failure
InitPaginate ==
    /\ scr \in [pc : {"paginate"},
                driver : {TRUE},
                max_reviews : MaxReviewsArgs \cup {2 * Len(LongChain) + 1},
                pages : SeqsUpTo(PageSizes, MaxPages) \cup {LongChain},
                product : {[ProductInfo EXCEPT
                               !.name = "text", !.price = "text",
                               !.rating = "text", !.review_count = "text",
                               !.review_rating_distribution =
                                   get_review_rating_distribution(FullGraph)]},
                all_reviews : {<<>>},
                all_ratings : {<<>>},
                page : {1},
                visited : {0},
                attempted : {SubSeq(PhaseOrder, 1, Len(PhaseOrder) - 1)},
                failed : {{}},
                raised : {"none"},
                endless : BOOLEAN,
                control : {"none"},
                elapsed : {0},
                body : {{}},
                gaps : GapPatterns]
    /\ StoreIdle
    /\ ExtractIdle
    /\ PipeIdle
    /\ CallIdle

NextPaginate == PaginateRound \/ ScrapeReturn

SpecPaginate == InitPaginate /\ [][NextPaginate]_vars /\ WF_vars(NextPaginate)

\* C29: the pagination ends for every max_reviews and every sequence of
\* pages, a chain that never ends included: a round of its loop either adds
\* at least one review to the total or ends the loop, and no more than
\* max_reviews pages are read.
C29_PaginationTerminates ==
    /\ [][scr.pc = "paginate" =>
             \/ Len(scr'.all_reviews) > Len(scr.all_reviews)
             \/ scr'.pc = "return"]_vars
    /\ [](scr.visited <= scr.max_reviews)
    /\ (scr.pc = "paginate") ~> (scr.pc = "returned")

\* a chain of pages of two reviews that never ends, left after five pages
\* with the ten reviews asked for
C29_Witness ==
    /\ scr.pc = "returned"
    /\ scr.endless
    /\ scr.pages = <<2>>
    /\ scr.max_reviews = 10
    /\ scr.visited = 5
    /\ Len(scr.product.reviews) = 10

\* the pagination leaves its loop in this step
PaginationStops == scr.pc = "paginate" /\ scr'.pc = "return"

\* the page shown has a control that leads to a further page
HasNextControl == scr.page < Len(scr.pages) \/ scr.endless

\* C30 as stated: the pagination stops only when the total has reached
\* max_reviews or no further page can be reached (no next-page control, or
\* the move to the next page raised); otherwise the next page is shown and
\* the reviews of the page just read are in the total.
C30_AsStated ==
    [][/\ PaginationStops =>
             \/ Len(scr'.all_reviews) >= scr.max_reviews
             \/ ~HasNextControl
             \/ "paginate" \in scr'.failed
       /\ (scr.pc = "paginate" /\ scr'.pc = "paginate") =>
             /\ scr'.page = NextPage(scr)
             /\ scr'.all_reviews = scr.all_reviews
                   \o ExtractReviewsFromPage(scr.pages, scr.page, scr.gaps).reviews]_vars

\* C30, amended: the pagination stops only when the total has reached
\* max_reviews, the page shown gives no review text, the move to the next
\* page raised or there is no next-page control; otherwise the control is
\* clicked and the reviews of the page just read are in the total.
C30_StopsOnlyWhen ==
    [][/\ PaginationStops =>
             \/ Len(scr'.all_reviews) >= scr.max_reviews
             \/ ExtractReviewsFromPage(scr.pages, scr.page, scr.gaps).reviews = <<>>
             \/ ~HasNextControl
             \/ "paginate" \in scr'.failed
       /\ (scr.pc = "paginate" /\ scr'.pc = "paginate") =>
             /\ HasNextControl
             /\ scr'.page = NextPage(scr)
             /\ scr'.visited = scr.visited + 1
             /\ Len(scr'.all_reviews) < scr.max_reviews
             /\ scr'.all_reviews = scr.all_reviews
                   \o ExtractReviewsFromPage(scr.pages, scr.page, scr.gaps).reviews]_vars

\* five reviews were read from the first of three pages, the second page
\* gave none (photo reviews only) and ended the pagination before the third
C30_Witness ==
    /\ scr.pc = "returned"
    /\ scr.pages = <<5, 0, 5>>
    /\ scr.max_reviews = 10
    /\ scr.visited = 2
    /\ scr.failed = {}
    /\ Len(scr.product.reviews) = 5

\* C31: after a page that leaves the total below the cap the pagination
\* clicks a.next when the page number is a multiple of 10 and the link
\* behind the active page number otherwise, and shows the page that follows;
\* when that control is absent it returns the reviews collected so far
\* without any failure.
C31_AdvanceByBlockOrSibling ==
    [][/\ (scr.pc = "paginate" /\ scr'.pc = "paginate") =>
             /\ scr'.control = IF scr.page % 10 = 0 THEN "a.next" ELSE "strong + a"
             /\ scr'.page = IF scr.page < Len(scr.pages) THEN scr.page + 1 ELSE 1
       /\ (/\ PaginationStops
           /\ Len(scr'.all_reviews) < scr.max_reviews
           /\ scr'.all_reviews # scr.all_reviews
           /\ "paginate" \notin scr'.failed) =>
             /\ ~HasNextControl
             /\ scr'.raised = "none"
             /\ scr'.product.reviews = scr'.all_reviews
             /\ scr'.control = scr.control]_vars

\* page 10 was left with a.next, page 11 has no link behind its number: the
\* pagination returned the 22 reviews of the 11 pages
C31_Witness ==
    /\ scr.pc = "returned"
    /\ scr.pages = LongChain
    /\ scr.page = 11
    /\ scr.visited = 11
    /\ scr.failed = {}
    /\ Len(scr.product.reviews) = 22
    /\ ~scr.endless

(***************************************************************************)
(* _get_detail_images and _extract_image_src                               *)
(***************************************************************************)
\* selector_patterns, in the order of the list
SelectorPatterns ==
    <<"#tempHtml2 > center img", "#tempHtml2 img", "#tempHtml img",
      ".detail_info_wrap img", ".prd_detail_info img", ".goods_detail_wrap img">>

\* "http" in src
HasHttp(v) == v \in {"http://a", "http://b", "http://c"}

\* _extract_image_src on the attributes <<src, data-src, data-original,
\* data-lazy>> of an element ("None": the attribute is missing): the first of
\* them that holds "http", None when there is none or when get_attribute
\* raises
extract_image_src(img) ==
    IF img = <<"raises">> THEN None
    ELSE LET hits == {k \in 1..4 : HasHttp(img[k])}
         IN  IF hits = {} THEN None
             ELSE img[CHOOSE k \in hits : \A j \in hits : k <= j]

\* for img in img_elements: src = ...; if src and src not in images: append
RECURSIVE CollectSrcs(_, _)
CollectSrcs(have, img_elements) ==
    IF img_elements = <<>> THEN have
    ELSE LET src == extract_image_src(Head(img_elements))
         IN  CollectSrcs(IF src # None /\ src \notin Range(have)
                         THEN Append(have, src) ELSE have,
                         Tail(img_elements))

\* the loop over the selectors without its break
RECURSIVE ScanSelectors_noBreak(_, _, _)
ScanSelectors_noBreak(dom, k, have) ==
    IF k > Len(SelectorPatterns) THEN [images |-> have, evaluated |-> k - 1]
    ELSE IF dom[k] = <<<<"find raises">>>>
    THEN ScanSelectors_noBreak(dom, k + 1, have)
    ELSE ScanSelectors_noBreak(dom, k + 1, CollectSrcs(have, dom[k]))

\* for selector in selector_patterns: the elements of the k-th selector are
\* dom[k]; find_elements may raise (the selector is skipped); the loop is
\* left after the first selector that leaves images non-empty
RECURSIVE ScanSelectors(_, _, _)
ScanSelectors(dom, k, have) ==
    IF k > Len(SelectorPatterns) THEN [images |-> have, evaluated |-> k - 1]
    ELSE IF dom[k] = <<<<"find raises">>>>
    THEN ScanSelectors(dom, k + 1, have)
    ELSE LET found == CollectSrcs(have, dom[k])
         IN  IF found # <<>> THEN [images |-> found, evaluated |-> k]
             ELSE ScanSelectors(dom, k + 1, found)

\* _get_detail_images after its scroll: a toggle that cannot be clicked
\* gives [], otherwise the selectors are scanned
get_detail_images(toggle_ok, dom) ==
    IF ~toggle_ok THEN [images |-> <<>>, evaluated |-> 0]
    ELSE ScanSelectors(dom, 1, <<>>)

\* img elements: a plain image, a lazily loaded one, one without any URL,
\* the first image once more under data-lazy, a third image, an element
\* that went stale
ImgA == <<"http://a", "None", "None", "None">>
ImgB == <<"blank.gif", "http://b", "None", "None">>
ImgNone == <<"blank.gif", "", "None", "None">>
ImgA2 == <<"", "None", "blank.gif", "http://a">>
ImgC == <<"None", "None", "http://c", "None">>
ImgStale == <<"raises">>

\* what one selector finds
SelectorFinds ==
    {<<<<"find raises">>>>, <<>>, <<ImgNone, ImgStale>>, <<ImgA, ImgA2, ImgB>>,
     <<ImgB, ImgNone, ImgC>>}

DetailImagesCalls ==
    [op : {"get_detail_images"}, state : {"pending"}, toggle_ok : BOOLEAN,
     dom : [1..Len(SelectorPatterns) -> SelectorFinds]]

\* product.detail_images = self._get_detail_images()
ApplyGetDetailImages ==
    /\ call.op = "get_detail_images"
    /\ call.state = "pending"
    /\ call' = [op |-> call.op, state |-> "returned", args |-> call,
                result |-> get_detail_images(call.toggle_ok, call.dom)]
    /\ UNCHANGED <<storeVars, extractVars, pipeVars, scrapeVars>>

\* the URLs one selector yields on its own, the failing lookup yielding none
UrlsOf(finds) ==
    IF finds = <<<<"find raises">>>> THEN {}
    ELSE {extract_image_src(finds[k]) : k \in 1..Len(finds)} \ {None}

\* C32: the URLs returned are those of one selector, the first in the order
\* of the list that yields a URL; no later selector is looked up; the list
\* holds no URL twice; it is empty when no selector yields a URL or the
\* toggle could not be clicked.
C32_FirstStrategyWins ==
    Returned("get_detail_images") =>
        LET dom == call.args.dom
            yielding == {k \in 1..Len(SelectorPatterns) : UrlsOf(dom[k]) # {}}
            imgs == call.result.images
        IN  /\ Cardinality(Range(imgs)) = Len(imgs)
            /\ IF call.args.toggle_ok /\ yielding # {}
               THEN LET first == CHOOSE k \in yielding : \A j \in yielding : k <= j
                    IN  /\ Range(imgs) = UrlsOf(dom[first])
                        /\ call.result.evaluated = first
               ELSE imgs = <<>>

\* the first two selectors yield nothing, the third finds a, a again and b,
\* the fourth would add c: the result is a, b
C32_Witness ==
    /\ Returned("get_detail_images")
    /\ call.args.dom[1] = <<<<"find raises">>>>
    /\ call.args.dom[2] = <<ImgNone, ImgStale>>
    /\ call.args.dom[3] = <<ImgA, ImgA2, ImgB>>
    /\ call.args.dom[4] = <<ImgB, ImgNone, ImgC>>
    /\ call.result.images = <<"http://a", "http://b">>
    /\ call.result.evaluated = 3

\* the positions of the log that hold the event
LogPositions(event) == {k \in 1..Len(log) : log[k] = event}

\* C33: in the batch function the Reasoning Service is called for an image
\* only after the probe of that image was answered with status 200 or 206
\* and an image content type; an image whose probe was answered otherwise,
\* raised or timed out gets the empty text and is never sent to the service.
C33_CallOnlyAfterProbe ==
    site \in BatchSites =>
        \A n \in 1..Len(images) :
            /\ \A k \in LogPositions(<<"call", n>>) :
                  \E j \in LogPositions(<<"probe_image", n>>) : j < k
            /\ LogPositions(<<"probe_other", n>>) # {} =>
                  /\ calls[n] = 0
                  /\ LogPositions(<<"call", n>>) = {}
                  /\ Len(results) >= n
                  /\ results[n] = <<images[n].image_url, <<>>>>
            /\ calls[n] > 0 <=> LogPositions(<<"call", n>>) # {}

\* the probe of the first image failed, the second image was probed, sent
\* to the service and gave text
C33_Witness ==
    /\ site \in BatchSites
    /\ BatchReturned
    /\ Len(images) = 2
    /\ log[1] = <<"probe_other", 1>>
    /\ calls = <<0, 1>>
    /\ results[1][2] = <<>>
    /\ results[2][2] # <<>>

\* C34: in the batch function a sleep of 2 seconds lies between any two
\* Reasoning Service calls made for different images.
C34_PacingBetweenCalls ==
    site \in BatchSites =>
        \A k \in 1..Len(log), m \in 1..Len(log) :
            (/\ k < m
             /\ log[k][1] = "call"
             /\ log[m][1] = "call"
             /\ log[k][2] # log[m][2]) =>
                \E j \in (k + 1)..(m - 1) : log[j][1] = "sleep2"

(***************************************************************************)
(* ReviewClassifier.extract_insights_with_evidence and its chunks          *)
(***************************************************************************)
MaxGroup == 170       \* reviews of one group

\* if len(reviews) > 100
ChunkThreshold == 100

\* chunk_size = 80
chunk_size == 80

\* what the Reasoning Service call of one chunk leads to: the call raises,
\* the response cannot be parsed (the empty result), or findings
ChunkOutcomes == {"raises", "unparsable", "one_point", "three_points"}

\* {"advantages": [], "disadvantages": []}
NoInsights == [advantages |-> <<>>, disadvantages |-> <<>>]

\* the parsed response of a chunk whose call returned
ChunkFindings(how) ==
    CASE how = "one_point" -> [advantages |-> <<"moist">>, disadvantages |-> <<>>]
      [] how = "three_points" ->
            [advantages |-> <<"moist", "mild">>, disadvantages |-> <<"sticky">>]
      [] OTHER -> NoInsights

\* numbering that starts again with every chunk
NumberedReviews_noOffset(reviews, offset) ==
    [k \in 1..Len(reviews) |-> <<k, reviews[k]>>]

\* for i, review in enumerate(reviews, 1 + offset): "[review i] review"
NumberedReviews(reviews, offset) ==
    [k \in 1..Len(reviews) |-> <<k + offset, reviews[k]>>]

\* _process_single_chunk: what was submitted, and the findings or the
\* exception of the call
process_single_chunk(reviews, offset, how) ==
    [submitted |-> NumberedReviews(reviews, offset),
     raised |-> how = "raises",
     value |-> ChunkFindings(how)]

\* chunks = [reviews[i:i+chunk_size] for i in range(0, len(reviews), chunk_size)]
Chunks(reviews) ==
    [c \in 1..((Len(reviews) + chunk_size - 1) \div chunk_size) |->
        SubSeq(reviews, (c - 1) * chunk_size + 1, Min(c * chunk_size, Len(reviews)))]

\* a merge that leaves out the points found before
Extend_dedup(all, found) ==
    all \o SelectSeq(found, LAMBDA point : point \notin Range(all))

\* all_advantages.extend(chunk_result["advantages"])
Extend(all, found) == all \o found

\* the loop of _process_reviews_in_chunks from chunk c on: a chunk that
\* raises is logged and skipped
RECURSIVE ProcessChunksFrom(_, _, _, _)
ProcessChunksFrom(chunks, outcomes, c, acc) ==
    IF c > Len(chunks) THEN acc
    ELSE LET r == process_single_chunk(chunks[c], (c - 1) * chunk_size, outcomes[c])
             sent == [acc EXCEPT !.submitted = Append(@, r.submitted)]
         IN  ProcessChunksFrom(chunks, outcomes, c + 1,
                IF r.raised THEN sent
                ELSE [sent EXCEPT
                        !.advantages = Extend(@, r.value.advantages),
                        !.disadvantages = Extend(@, r.value.disadvantages)])

\* extract_insights_with_evidence: nothing is sent for an empty group, one
\* chunk up to 100 reviews, chunks of 80 above; an exception of the single
\* chunk gives the empty result
extract_insights_with_evidence(reviews, outcomes) ==
    IF reviews = <<>>
    THEN [advantages |-> <<>>, disadvantages |-> <<>>, submitted |-> <<>>]
    ELSE IF Len(reviews) > ChunkThreshold
    THEN ProcessChunksFrom(Chunks(reviews), outcomes, 1,
            [advantages |-> <<>>, disadvantages |-> <<>>, submitted |-> <<>>])
    ELSE LET r == process_single_chunk(reviews, 0, outcomes[1])
         IN  [advantages |-> IF r.raised THEN <<>> ELSE r.value.advantages,
              disadvantages |-> IF r.raised THEN <<>> ELSE r.value.disadvantages,
              submitted |-> <<r.submitted>>]

\* a group of n reviews, the k-th review written k, and what the call of
\* each chunk leads to
InsightsCalls ==
    [op : {"extract_insights_with_evidence"}, state : {"pending"},
     n : 0..MaxGroup,
     outcomes : [1..((MaxGroup + chunk_size - 1) \div chunk_size) -> ChunkOutcomes]]

ApplyExtractInsights ==
    /\ call.op = "extract_insights_with_evidence"
    /\ call.state = "pending"
    /\ call' = [op |-> call.op, state |-> "returned", args |-> call,
                result |-> extract_insights_with_evidence(
                               [k \in 1..call.n |-> k], call.outcomes)]
    /\ UNCHANGED <<storeVars, extractVars, pipeVars, scrapeVars>>

\* the chunks are cut as the claim says and their numbers are 1..n in the
\* order of the reviews
ChunksNumbered(n, submitted) ==
    /\ Len(submitted) = IF n <= 100 THEN 1 ELSE (n + 79) \div 80
    /\ \A c \in 1..Len(submitted) :
          Len(submitted[c]) = IF n <= 100 THEN n
                              ELSE IF c < Len(submitted) THEN 80
                              ELSE n - 80 * (c - 1)
    /\ Flatten(submitted) = [k \in 1..n |-> <<k, k>>]

\* C35 as stated: a group of n reviews is submitted as one chunk when
\* n <= 100 and as chunks of 80 (the last possibly shorter) when n > 100, and
\* the numbers of the reviews are 1..n in the order of the reviews.
C35_AsStated ==
    Returned("extract_insights_with_evidence") =>
        ChunksNumbered(call.args.n, call.result.submitted)

\* C35, amended: nothing is submitted for an empty group; a group of 1 to
\* 100 reviews is submitted as one chunk, a larger one as chunks of 80 (the
\* last possibly shorter), and the numbers of the reviews are 1..n in the
\* order of the reviews.
C35_ChunksNumbered ==
    Returned("extract_insights_with_evidence") =>
        IF call.args.n = 0 THEN call.result.submitted = <<>>
        ELSE ChunksNumbered(call.args.n, call.result.submitted)

\* 161 reviews: chunks of 80, 80 and 1, the last review numbered 161
C35_Witness ==
    /\ Returned("extract_insights_with_evidence")
    /\ call.args.n = 161
    /\ Len(call.result.submitted) = 3
    /\ call.result.submitted[3] = <<<<161, 161>>>>

\* what json.loads makes of the fenced block of the response, if there is a
\* closed one
FencedTier(result) ==
    LET open == FindFrom(result, {"fence_json"}, 1)
        close == FindFrom(result, {"fence", "fence_json"}, open + 1)
    IN  IF open # 0 /\ close # 0
        THEN JsonLoads(SubSeq(result, open + 1, close - 1))
        ELSE [ok |-> FALSE, value |-> <<>>]

\* what json.loads makes of the text from the first "{" to the last "}"
BraceTier(result) ==
    LET first == FindFrom(result, {"{"}, 1)
        last == RFind(result, "}")
    IN  IF first # 0 /\ last >= first
        THEN JsonLoads(SubSeq(result, first, last))
        ELSE [ok |-> FALSE, value |-> <<>>]

\* C36 as stated: _process_single_chunk returns what the first successful
\* tier parsed, in the order direct parse, fenced block, first "{" to last
\* "}"; the brace tier recovers the response whenever its substring is valid
\* JSON, also after a failed earlier tier; only when all three tiers fail
\* does the chunk give the empty result.
C36_FirstSuccessfulTier ==
    (Returned("parse_response") /\ call.args.consumer = "chunk") =>
        LET r == call.args.response
        IN  call.result =
               IF JsonLoads(r).ok THEN JsonLoads(r).value
               ELSE IF FencedTier(r).ok THEN FencedTier(r).value
               ELSE IF BraceTier(r).ok THEN BraceTier(r).value
               ELSE <<"default_chunk">>

\* C37: for a group of more than 100 reviews the advantages and the
\* disadvantages are the lists of the chunks one after the other in the
\* order of the chunks, a point found in two chunks standing twice; a chunk
\* whose call raised or whose response could not be parsed adds nothing and
\* leaves the points of the other chunks in place.
C37_ChunksConcatenated ==
    (Returned("extract_insights_with_evidence") /\ call.args.n > 100) =>
        LET chunks == 1..Len(call.result.submitted)
            found(c) == IF call.args.outcomes[c] \in {"raises", "unparsable"}
                        THEN NoInsights
                        ELSE ChunkFindings(call.args.outcomes[c])
        IN  /\ call.result.advantages =
                  Flatten([c \in chunks |-> found(c).advantages])
            /\ call.result.disadvantages =
                  Flatten([c \in chunks |-> found(c).disadvantages])

\* three chunks: the first finds "moist", the call of the second raises, the
\* third finds "moist" again, "mild" and "sticky"
C37_Witness ==
    /\ Returned("extract_insights_with_evidence")
    /\ call.args.n = 161
    /\ call.args.outcomes = <<"one_point", "raises", "three_points">>
    /\ call.result.advantages = <<"moist", "moist", "mild">>
    /\ call.result.disadvantages = <<"sticky">>

(***************************************************************************)
(* Two pipeline runs persisting the same URL at once.  Each run is a       *)
(* save_product_info call on a connection of its own; the calls' statements*)
(* interleave in any order.  sqlite3.connect(DB_FILE) keeps the module's   *)
(* defaults: the SELECT opens no transaction, the first INSERT / UPDATE /  *)
(* DELETE opens one and takes the file's single write lock, a statement    *)
(* that finds the lock taken waits for it and raises OperationalError once *)
(* the timeout has passed, COMMIT publishes the connection's changes and   *)
(* gives the lock back.  db is the committed store, call holds the two     *)
(* runs.                                                                   *)
(***************************************************************************)
Runs == {1, 2}

RaceUrl == "https://www.oliveyoung.co.kr/A"

\* a run before its first statement
NewRun(info) ==
    [info |-> info, step |-> 0, found |-> 0, view |-> EmptyDb,
     outcome |-> "running", error |-> "none"]

\* the store a racing pair starts from: empty, or the URL scraped before
RaceStores ==
    {EmptyDb,
     save_product_info(EmptyDb,
         [name |-> "toner", detail_images |-> <<"https://image/a.jpg">>,
          reviews |-> <<"good">>, review_ratings |-> <<"5">>],
         RaceUrl, 0).db}

InitRace ==
    /\ db \in RaceStores
    /\ lastCall = NoCall
    /\ lastTrue = <<>>
    /\ saves = 0
    /\ ExtractIdle /\ PipeIdle /\ ScrapeIdle
    /\ call \in {[op |-> "save_product_info", url |-> RaceUrl, lock |-> 0,
                  runs |-> <<NewRun(a), NewRun(b)>>] :
                    a \in InfoSamples, b \in InfoSamples}

\* except Exception: con.rollback(); finally: con.close()
RunFails(r, error) ==
    [r EXCEPT !.outcome = "rolledback", !.error = error]

\* the store the run's next write statement works on: its own uncommitted
\* changes once its transaction is open, the committed store before that
WorkingStore(c, p) == IF c.lock = p THEN c.runs[p].view ELSE db

\* the product id the child rows are written under
RunProductId(r, d) == IF r.found # 0 THEN r.found ELSE d.seq_products

\* the store after statement k of the run, worked on d
StatementResult(r, url, k, d) ==
    CASE k = 2 -> IF r.found # 0 THEN TxDeleteChildren(d, r.found) ELSE d
      [] k = 3 -> IF r.found # 0 THEN TxUpdateProduct(d, r.found, r.info)
                                 ELSE TxInsertProduct(d, url, r.info)
      [] k = 4 -> TxInsertImages(d, RunProductId(r, d), r.info)
      [] k = 5 -> TxInsertReviews(d, RunProductId(r, d), r.info)

\* statement k of the run writes (the branch not taken executes nothing)
Writes(r, k) == k \in {3, 4, 5} \/ (k = 2 /\ r.found # 0)

\* run p executes its next statement
RaceStatement(p) ==
    /\ call.op = "save_product_info"
    /\ call.runs[p].outcome = "running"
    /\ LET r == call.runs[p]
           k == r.step + 1
           other == 3 - p
       IN  \/ /\ k = 1
              /\ Falsy(r.info.name)
              /\ call' = [call EXCEPT !.runs[p].outcome = "skipped"]
              /\ db' = db
           \/ /\ k = 1
              /\ ~Falsy(r.info.name)
              /\ call' = [call EXCEPT !.runs[p].step = 1,
                              !.runs[p].found = SelectProductId(db, call.url)]
              /\ db' = db
           \/ /\ k \in 2..5
              /\ ~Writes(r, k)
              /\ call' = [call EXCEPT !.runs[p].step = k]
              /\ db' = db
           \/ /\ k \in 2..5
              /\ Writes(r, k)
              /\ call.lock # other
              /\ \E d \in {WorkingStore(call, p)} :
                    IF k = 3 /\ r.found = 0 /\ UniqueViolated(d, call.url)
                    THEN call' = [call EXCEPT !.lock = 0,
                                    !.runs[p] = RunFails(r, "IntegrityError")]
                    ELSE call' = [call EXCEPT !.lock = p,
                                    !.runs[p].step = k,
                                    !.runs[p].view =
                                        StatementResult(r, call.url, k, d)]
              /\ db' = db
           \/ /\ k = 6
              /\ call.lock = p
              /\ db' = r.view
              /\ call' = [call EXCEPT !.lock = 0, !.runs[p].step = 6,
                              !.runs[p].outcome = "committed"]
    /\ UNCHANGED <<lastCall, lastTrue, saves>>
    /\ UNCHANGED <<extractVars, pipeVars, scrapeVars>>

\* run p waited for the write lock until the timeout: OperationalError
RaceLockTimeout(p) ==
    /\ call.op = "save_product_info"
    /\ call.runs[p].outcome = "running"
    /\ call.runs[p].step + 1 \in 2..5
    /\ Writes(call.runs[p], call.runs[p].step + 1)
    /\ call.lock = 3 - p
    /\ call' = [call EXCEPT !.runs[p] = RunFails(@, "OperationalError")]
    /\ UNCHANGED storeVars
    /\ UNCHANGED <<extractVars, pipeVars, scrapeVars>>

NextRace == \E p \in Runs : RaceStatement(p) \/ RaceLockTimeout(p)

SpecRace == InitRace /\ [][NextRace]_vars

\* C38: when two runs persist the same URL at once, their statements
\* interleaved in any order, the store never holds two product rows for the
\* URL, neither committed nor in a run's open transaction
C38_NoDuplicateProduct ==
    call.op = "save_product_info" =>
        /\ Len(ProductRows(db, call.url)) <= 1
        /\ \A p \in Runs : Len(ProductRows(call.runs[p].view, call.url)) <= 1

\* both runs looked the URL up before either had stored it, one committed
\* its INSERT and the other's INSERT was refused
C38_Witness ==
    /\ call.op = "save_product_info"
    /\ \E p \in Runs :
          /\ call.runs[p].outcome = "committed"
          /\ call.runs[p].found = 0
          /\ call.runs[3 - p].found = 0
          /\ call.runs[3 - p].step = 2
          /\ call.runs[3 - p].error = "IntegrityError"
    /\ Len(ProductRows(db, call.url)) = 1

(***************************************************************************)
(* Extracted text and the images it was read from.                         *)
(***************************************************************************)
\* get_product_image_texts(product_id): the rows of product_image_texts its
\* SELECT ... WHERE product_id = ? returns and its "text and text.strip()"
\* filter keeps, as a set (the rows of the model carry no extracted_at)
get_product_image_texts(d, product_id) ==
    {d.texts[k] : k \in {n \in 1..Len(d.texts) :
        /\ d.texts[n].product_id = product_id
        /\ Truthy(d.texts[n].extracted_text)
        /\ Truthy(Strip(d.texts[n].extracted_text))}}

\* a product_images row with this id is stored
ImageExists(d, image_id) ==
    \E k \in 1..Len(d.images) : d.images[k].id = image_id

\* C39: after any sequence of scrapes, re-scrapes and text extractions every
\* stored text row refers to an image row that still exists, and the texts
\* read for a product's summary all come from images the product still has
C39_TextsReferToImages ==
    /\ \A k \in 1..Len(db.texts) : ImageExists(db, db.texts[k].image_id)
    /\ \A n \in 1..Len(db.products) :
          \A t \in get_product_image_texts(db, db.products[n].id) :
              ImageExists(db, t.image_id)

\* the list item a review text was read from: its position on its page
ItemOf(review) == review[2]

\* the i-th rating of the two lists is the one parsed from the item the i-th
\* text was read from, and that item has both its elements
PairedLists(reviews, ratings, gaps) ==
    /\ Len(reviews) = Len(ratings)
    /\ \A n \in 1..Len(reviews) :
          /\ ItemOf(reviews[n]) \notin gaps.no_text
          /\ ItemOf(reviews[n]) \notin gaps.no_rating
          /\ Len(ratings) >= n
          /\ ratings[n] = parse_rating_from_text(RatingTextOf(ItemOf(reviews[n])))

\* C40: the reviews and review_ratings lists of scrape always have the same
\* length, the i-th rating is the one parsed from the review item of the i-th
\* text, and an item lacking its text or its rating element is in neither list
C40_ListsPaired ==
    scr.pc \in {"paginate", "return", "returned"} =>
        /\ PairedLists(scr.all_reviews, scr.all_ratings, scr.gaps)
        /\ PairedLists(scr.product.reviews, scr.product.review_ratings, scr.gaps)

\* scrape has returned reviews read around an item without a text and an item
\* without a rating
C40_Witness ==
    /\ scr.pc = "returned"
    /\ scr.gaps = [no_text |-> {1}, no_rating |-> {3}]
    /\ scr.pages = <<5, 5>>
    /\ Len(scr.product.reviews) = 6
    /\ scr.product.reviews[1] = <<1, 2>>
    /\ scr.product.reviews[2] = <<1, 4>>
    /\ scr.product.review_ratings[2] = <<"4">>
    /\ scr.product.reviews[4] = <<2, 2>>

InitCalls ==
    /\ call \in EvaluateCalls \cup ParseCalls \cup ReviewsByRatingCalls \cup ParseResponseCalls
                 \cup WeightedScoreCalls \cup PenaltyCalls \cup GradeCalls
                 \cup DetailImagesCalls \cup InsightsCalls
    /\ StoreIdle
    /\ ExtractIdle
    /\ PipeIdle
    /\ ScrapeIdle

NextCalls ==
    ApplyEvaluateProduct \/ OtherWriterCommits \/ ResumeEvaluateProduct
    \/ ApplyParseRating \/ ApplyReviewsByRating
    \/ ApplyParseResponse \/ ApplyWeightedScore \/ ApplyPenaltyScore
    \/ ApplyEvaluationGrade \/ ApplyGetDetailImages
    \/ ApplyExtractInsights

SpecCalls == InitCalls /\ [][NextCalls]_vars
====
